---- MODULE Spec2Model ----
(***************************************************************************)
(* Song-request bot: Queue Engine (QueueManager), Token Ledger             *)
(* (VIPTokenService) and Command Router (CommandProcessor).                *)
(*                                                                         *)
(* Three specifications share the variables:                               *)
(*   SpecQueue  - the public operations of QueueManager, called directly;  *)
(*   SpecLedger - the public operations of VIPTokenService;                *)
(*   SpecCmd    - chat commands processed by CommandProcessor, each        *)
(*                handler an async function that suspends at its awaits.   *)
(*                                                                         *)
(* Time is the wall clock in whole seconds.  Request ids are fresh.        *)
(* Account timestamps (lastUpdated, transaction timestamp) and the         *)
(* transaction description text are not modelled.                          *)
(***************************************************************************)
EXTENDS Integers, Sequences, FiniteSets, TLC

VARIABLES
    requests,            \* QueueManager.requests: active queue, in array order
    history,             \* QueueManager.history
    userCooldowns,       \* QueueManager.userCooldowns: <<platform, userId>> -> time
    maxRequestsPerUser,  \* constructor parameter
    cooldownSeconds,     \* constructor parameter
    nextId,              \* next fresh request id (generateId)
    now,                 \* Date.now() in seconds
    users,               \* VIPTokenService.data.users, in key insertion order
    rates,               \* VIPTokenService.data.rates
    handlers,            \* handleRequest / handleVIPRequest calls suspended in searchSong
    lastReply,           \* the text last handed to the reply capability
    rejected,            \* some processMessage promise was rejected
    hasCredentials,      \* CustomsforgeService: username and password are set
    isLoggedIn,          \* CustomsforgeService.isLoggedIn
    cookies,             \* CustomsforgeService.cookies
    loginResult,         \* what the last login call returned
    searchCache,         \* CustomsforgeService.searchCache
    cacheTimers,         \* pending setTimeout callbacks of searchSong
    searches,            \* searchSong calls waiting for the network
    lastSearch,          \* the last searchSong call that returned
    lastStored,          \* per cache key, the last result stored and when
    isConnected,         \* YouTubeClient.isConnected
    nextPageToken,       \* YouTubeClient.nextPageToken, 0 for undefined
    polls,               \* liveChatMessages.list calls waiting for the network
    liveChat,            \* number of items posted to the live chat so far
    dispatched,          \* live chat items handed to the handlers so far
    loginPc,             \* where the login call in progress stands, "idle" when none
    nextUrl,             \* login: the Location header last received, "none" when absent
    redirectCount,       \* login: redirectCount of phase 2
    botManager,          \* main process: the current BotManager, 0 for null
    instances,           \* the BotManager instances created so far
    ipc,                 \* start-bot and stop-bot handlers suspended in an await
    stopDone             \* a stop-bot call returned and no start-bot call came after

vars == <<requests, history, userCooldowns, maxRequestsPerUser, cooldownSeconds,
          nextId, now, users, rates, handlers, lastReply, rejected,
          hasCredentials, isLoggedIn, cookies, loginResult, searchCache,
          cacheTimers, searches, lastSearch, lastStored,
          isConnected, nextPageToken, polls, liveChat, dispatched,
          loginPc, nextUrl, redirectCount, botManager, instances, ipc, stopDone>>

queueVars == <<requests, history, userCooldowns, nextId>>
configVars == <<maxRequestsPerUser, cooldownSeconds>>
ledgerVars == <<users, rates>>
loginStepVars == <<loginPc, nextUrl, redirectCount>>
loginVars == <<hasCredentials, isLoggedIn, cookies, loginResult, loginStepVars>>
searchVars == <<searchCache, cacheTimers, searches, lastSearch, lastStored>>
youtubeVars == <<isConnected, nextPageToken, polls, liveChat, dispatched>>
botVars == <<botManager, instances, ipc, stopDone>>
serviceVars == <<loginVars, searchVars, youtubeVars, botVars>>
cmdVars == <<handlers, lastReply, rejected, serviceVars>>

----------------------------------------------------------------------------
(* Bounds of the model *)

MaxId == 3          \* requests created in one run of SpecQueue
MaxTimedId == 2     \* requests created in one run of the specifications with a clock
MaxTime == 2        \* clock ticks in one run
MaxLimit == 2       \* largest maxRequestsPerUser tried
MaxCooldown == 2    \* largest cooldownSeconds tried
MaxTx == 2          \* ledger transactions recorded in one run
MaxAccounts == 3    \* ledger accounts in one run
MaxHandlers == 2    \* request commands in flight at once
MaxCommands == 3    \* request commands admitted or in flight in one run
MaxSubscriptions == 1  \* subscription events in one run of SpecCmd
MaxOverCap == 2     \* transactions recorded beyond HistoryCap in one run of SpecCap
MaxCapEarned == 1   \* tokens awarded in one run of SpecCap

----------------------------------------------------------------------------
(* Strings and their lower-casing *)

ToLower(s) ==
    CASE s = "Ann"      -> "ann"
      [] s = "Bob"      -> "bob"
      [] s = "Muse"     -> "muse"
      [] s = "Uprising" -> "uprising"
      [] s = "Tool" -> "tool"
      [] s = "Sober" -> "sober"
      [] s = "Rush" -> "rush"
      [] s = "YYZ" -> "yyz"
      [] s = "Host" -> "host"
      [] s = "CLEAR" -> "clear"
      [] s = "MUSE" -> "muse"
      [] s = "UPRISING" -> "uprising"
      [] s = "Muse Uprising" -> "muse uprising"
      [] s = "MUSE UPRISING" -> "muse uprising"
      [] s = "Unknown Artist" -> "unknown artist"
      [] s = "UNKNOWN ARTIST" -> "unknown artist"
      [] OTHER          -> s

Platforms == {"twitch", "youtube"}

Songs == { [artist |-> "Muse", title |-> "Uprising"],
           [artist |-> "muse", title |-> "uprising"],
           [artist |-> "Tool", title |-> "Sober"] }

\* The songs handed to QueueManager.addRequest directly: no queue operation
\* but isSongInQueue reads the song.
QueueSongs == { [artist |-> "Muse", title |-> "Uprising"] }

\* Chat identities calling the queue: platform, platform user id, display name.
\* The second has a display name equal to its id; the third shares id and
\* name with the first on the other platform.
QueueCallers == { [platform |-> "twitch",  userId |-> "1",   username |-> "Ann"],
                  [platform |-> "twitch",  userId |-> "bob", username |-> "bob"],
                  [platform |-> "youtube", userId |-> "1",   username |-> "Ann"] }

\* Identities carried by ledger calls that know the platform user id.  The
\* second has the first's display name in another letter case under another
\* id, the third is the first after a rename, the fourth is the first's id
\* and name on the other platform.
LedgerCallers == { [platform |-> "twitch",  userId |-> "1", username |-> "Ann"],
                   [platform |-> "twitch",  userId |-> "2", username |-> "ann"],
                   [platform |-> "twitch",  userId |-> "1", username |-> "Bob"],
                   [platform |-> "youtube", userId |-> "1", username |-> "Ann"] }

\* Targets of the ledger calls addressed by username
UsernameTargets == { [platform |-> "twitch",  username |-> "Ann"],
                     [platform |-> "youtube", username |-> "ann"] }

\* Chat message senders: a viewer and the broadcaster
CmdCallers == { [platform |-> "twitch", userId |-> "1", username |-> "Ann",
                 isMod |-> FALSE, isBroadcaster |-> FALSE],
                [platform |-> "twitch", userId |-> "9", username |-> "Host",
                 isMod |-> FALSE, isBroadcaster |-> TRUE] }

\* Viewers who subscribe
Subscribers == { c \in CmdCallers : ~c.isBroadcaster }

\* What a catalogue search can resolve to: the k-th admitted request is for
\* one of the first k songs
SongList == << [artist |-> "Muse", title |-> "Uprising"],
              [artist |-> "Tool", title |-> "Sober"],
              [artist |-> "Rush", title |-> "YYZ"] >>

AwardAmounts == {1, 2}
SetValues == {-1, 2}
SpendAmounts == {1, 2}
Tiers == {"Prime", "3000"}
CmdTiers == {"2000"}
BitsAmounts == {100, 600}
SuperChatMicros == {1000000, 5000000}
RateUpdates == { [twitchBitsAmount |-> 100, twitchBitsTokens |-> 2] }

----------------------------------------------------------------------------
(* Sequence helpers *)

Range(s) == { s[i] : i \in DOMAIN s }

\* Array.splice(i, 0, e) with a 0-based index i
SpliceIn(s, i, e) == SubSeq(s, 1, i) \o <<e>> \o SubSeq(s, i + 1, Len(s))

\* Array.splice(i, 1) with a 0-based index i
SpliceOut(s, i) == SubSeq(s, 1, i) \o SubSeq(s, i + 2, Len(s))

\* Smallest element of a set of naturals that is not empty
MinOf(S) == CHOOSE m \in S : \A x \in S : m <= x

\* Largest element of a set of naturals, dflt when empty
MaxOf(S, dflt) == IF S = {} THEN dflt ELSE CHOOSE m \in S : \A x \in S : x <= m

----------------------------------------------------------------------------
(* QueueManager *)

IsPending(r) == r.status = "pending"

\* getPendingRequests
getPendingRequests(reqs) == SelectSeq(reqs, IsPending)

\* canUserRequest: the cooldown check
CooldownActive_le(cool, userId, platform, t, cd) ==
    /\ <<platform, userId>> \in DOMAIN cool
    /\ t - cool[<<platform, userId>>] <= cd

CooldownActive(cool, userId, platform, t, cd) ==
    /\ <<platform, userId>> \in DOMAIN cool
    /\ t - cool[<<platform, userId>>] < cd

\* canUserRequest: the user's pending requests, as the filter selects them
UserPendingCount(reqs, userId, platform) ==
    Cardinality({ i \in DOMAIN reqs :
        /\ reqs[i].requestedBy = userId
        /\ reqs[i].platform = platform
        /\ reqs[i].status = "pending" })

canUserRequest(userId, platform) ==
    IF CooldownActive(userCooldowns, userId, platform, now, cooldownSeconds)
    THEN [allowed |-> FALSE, reason |-> "cooldown"]
    ELSE IF UserPendingCount(requests, userId, platform) >= maxRequestsPerUser
    THEN [allowed |-> FALSE, reason |-> "limit"]
    ELSE [allowed |-> TRUE, reason |-> "none"]

\* addRequest: the record built.  Field userId is a history field: the code
\* receives userId but stores only username in requestedBy.
NewRequest(id, song, userId, username, platform, isVIP, t) ==
    [id |-> id, song |-> song, requestedBy |-> username, platform |-> platform,
     requestedAt |-> t, status |-> "pending", isVIP |-> isVIP, userId |-> userId]

\* addRequest: the reduce that finds the last pending VIP entry (0-based, -1 if none)
LastVIPIndex(reqs) ==
    MaxOf({ i \in DOMAIN reqs : reqs[i].status = "pending" /\ reqs[i].isVIP }, 0) - 1

InsertRequest_push(reqs, request) == Append(reqs, request)

\* addRequest: where the record goes
InsertRequest(reqs, request) ==
    IF request.isVIP
    THEN SpliceIn(reqs, LastVIPIndex(reqs) + 1, request)
    ELSE Append(reqs, request)

SetCooldown(cool, userId, platform, t) ==
    [k \in DOMAIN cool \cup {<<platform, userId>>} |->
        IF k = <<platform, userId>> THEN t ELSE cool[k]]

HasId(reqs, id) == \E i \in DOMAIN reqs : reqs[i].id = id

FindById(reqs, id) == reqs[CHOOSE i \in DOMAIN reqs : reqs[i].id = id]

RemoveId(reqs, id) == SelectSeq(reqs, LAMBDA r : r.id # id)

\* markPlaying
markPlaying(reqs, id) ==
    [i \in DOMAIN reqs |->
        IF reqs[i].id = id THEN [reqs[i] EXCEPT !.status = "playing"] ELSE reqs[i]]

\* getNextRequest: the id of the first pending entry, 0 for null
getNextRequest(reqs) ==
    IF getPendingRequests(reqs) = <<>> THEN 0 ELSE getPendingRequests(reqs)[1].id

\* getQueueForDisplay().nowPlaying: the id of the first playing entry, 0 for null
nowPlaying(reqs) ==
    IF \E i \in DOMAIN reqs : reqs[i].status = "playing"
    THEN reqs[CHOOSE i \in DOMAIN reqs :
                /\ reqs[i].status = "playing"
                /\ \A j \in 1..(i - 1) : reqs[j].status # "playing"].id
    ELSE 0

\* getUserRequests
getUserRequests(reqs, username, platform) ==
    SelectSeq(reqs, LAMBDA r :
        r.requestedBy = username /\ r.platform = platform /\ r.status = "pending")

isSongInQueue_exact(reqs, artist, title) ==
    \E i \in DOMAIN reqs :
        /\ reqs[i].status = "pending"
        /\ reqs[i].song.artist = artist
        /\ reqs[i].song.title = title

\* isSongInQueue
isSongInQueue(reqs, artist, title) ==
    \E i \in DOMAIN reqs :
        /\ reqs[i].status = "pending"
        /\ ToLower(reqs[i].song.artist) = ToLower(artist)
        /\ ToLower(reqs[i].song.title) = ToLower(title)

\* getQueuePosition
getQueuePosition(reqs, id) ==
    MaxOf({ i \in DOMAIN getPendingRequests(reqs) : getPendingRequests(reqs)[i].id = id }, 0)

\* The queue after each operation, as a record [requests, history, result]

Terminate_keep(reqs, hist, id, status) ==
    IF HasId(reqs, id)
    THEN [requests |-> reqs,
          history  |-> Append(hist, [FindById(reqs, id) EXCEPT !.status = status]),
          result   |-> id]
    ELSE [requests |-> reqs, history |-> hist, result |-> 0]

\* markCompleted / skipRequest share their shape: the status differs
Terminate(reqs, hist, id, status) ==
    IF HasId(reqs, id)
    THEN [requests |-> RemoveId(reqs, id),
          history  |-> Append(hist, [FindById(reqs, id) EXCEPT !.status = status]),
          result   |-> id]
    ELSE [requests |-> reqs, history |-> hist, result |-> 0]

markCompleted(reqs, hist, id) == Terminate(reqs, hist, id, "completed")

skipRequest(reqs, hist, id) == Terminate(reqs, hist, id, "skipped")

popNextRequest(reqs) ==
    IF getNextRequest(reqs) # 0
    THEN [requests |-> markPlaying(reqs, getNextRequest(reqs)), result |-> getNextRequest(reqs)]
    ELSE [requests |-> reqs, result |-> 0]

clearQueue_drop(reqs, hist) ==
    [requests |-> <<>>, history |-> hist, result |-> Len(reqs)]

clearQueue(reqs, hist) ==
    [requests |-> <<>>,
     history  |-> hist \o [i \in DOMAIN reqs |-> [reqs[i] EXCEPT !.status = "skipped"]],
     result   |-> Len(reqs)]

removeUserRequest(reqs, hist, username, platform) ==
    IF getUserRequests(reqs, username, platform) # <<>>
    THEN skipRequest(reqs, hist,
            getUserRequests(reqs, username, platform)
                [Len(getUserRequests(reqs, username, platform))].id)
    ELSE [requests |-> reqs, history |-> hist, result |-> 0]

\* index is 0-based
removePendingAt(reqs, hist, index) ==
    IF index < 0 \/ index >= Len(getPendingRequests(reqs))
    THEN [requests |-> reqs, history |-> hist, result |-> 0]
    ELSE skipRequest(reqs, hist, getPendingRequests(reqs)[index + 1].id)

reorderQueue_pendingOnly(reqs, fromIndex, toIndex) ==
    IF \/ fromIndex < 0 \/ fromIndex >= Len(getPendingRequests(reqs))
       \/ toIndex < 0 \/ toIndex >= Len(getPendingRequests(reqs))
    THEN reqs
    ELSE SpliceIn(SpliceOut(getPendingRequests(reqs), fromIndex), toIndex,
                  getPendingRequests(reqs)[fromIndex + 1])

\* indices are 0-based
reorderQueue(reqs, fromIndex, toIndex) ==
    IF \/ fromIndex < 0 \/ fromIndex >= Len(getPendingRequests(reqs))
       \/ toIndex < 0 \/ toIndex >= Len(getPendingRequests(reqs))
    THEN reqs
    ELSE SelectSeq(reqs, LAMBDA r : r.status # "pending")
         \o SpliceIn(SpliceOut(getPendingRequests(reqs), fromIndex), toIndex,
                     getPendingRequests(reqs)[fromIndex + 1])

----------------------------------------------------------------------------
(* VIPTokenService *)

\* Accounts are records [platform, platformUserId, displayName, tokens,
\* totalEarned, history]; users lists them in the insertion order of their
\* keys platform:platformUserId, the order Object.entries walks.

HistoryCap == 100

\* Index of the account stored under the key, 0 when there is none
KeyIndex(us, platform, platformUserId) ==
    MaxOf({ i \in DOMAIN us :
              us[i].platform = platform /\ us[i].platformUserId = platformUserId }, 0)

\* findUserByDisplayName: index of the first match, 0 for null
findUserByDisplayName(us, platform, displayName) ==
    IF \E i \in DOMAIN us :
            us[i].platform = platform /\ ToLower(us[i].displayName) = ToLower(displayName)
    THEN CHOOSE i \in DOMAIN us :
            /\ us[i].platform = platform
            /\ ToLower(us[i].displayName) = ToLower(displayName)
            /\ \A j \in 1..(i - 1) :
                ~(us[j].platform = platform
                    /\ ToLower(us[j].displayName) = ToLower(displayName))
    ELSE 0

NewUser(platform, platformUserId, displayName) ==
    [platform |-> platform, platformUserId |-> platformUserId,
     displayName |-> displayName, tokens |-> 0, totalEarned |-> 0, history |-> <<>>]

\* getOrCreateUser: the accounts afterwards and the index of the one returned
getOrCreateUser(us, platform, platformUserId, displayName) ==
    IF KeyIndex(us, platform, platformUserId) # 0
    THEN [users |-> [us EXCEPT ![KeyIndex(us, platform, platformUserId)].displayName
                                    = displayName],
          idx   |-> KeyIndex(us, platform, platformUserId)]
    ELSE IF findUserByDisplayName(us, platform, displayName) # 0
    THEN [users |-> Append(
                      SpliceOut(us, findUserByDisplayName(us, platform, displayName) - 1),
                      [us[findUserByDisplayName(us, platform, displayName)] EXCEPT
                          !.platformUserId = platformUserId,
                          !.displayName = displayName]),
          idx   |-> Len(us)]
    ELSE [users |-> Append(us, NewUser(platform, platformUserId, displayName)),
          idx   |-> Len(us) + 1]

\* ensureUser
ensureUser(us, platform, platformUserId, displayName) ==
    getOrCreateUser(us, platform, platformUserId, displayName).users

\* history.slice(-100) once the history is longer than 100
TrimHistory(h) ==
    IF Len(h) > HistoryCap THEN SubSeq(h, Len(h) - HistoryCap + 1, Len(h)) ELSE h

Tx(type, amount) == [type |-> type, amount |-> amount]

Credit_noEarned(u, amount, type) ==
    [u EXCEPT !.tokens = @ + amount,
              !.history = TrimHistory(Append(@, Tx(type, amount)))]

\* The body shared by awardTokens and awardTokensByUsername once the account is found
Credit(u, amount, type) ==
    [u EXCEPT !.tokens = @ + amount,
              !.totalEarned = @ + amount,
              !.history = TrimHistory(Append(@, Tx(type, amount)))]

\* The body shared by setUserTokens and setTokensByUsername once the account is found
SetBalance(u, tokens) ==
    [u EXCEPT !.tokens = tokens,
              !.history = Append(@, Tx("manual", tokens - u.tokens))]

\* awardTokens
awardTokens(us, platform, platformUserId, displayName, amount, type) ==
    [getOrCreateUser(us, platform, platformUserId, displayName).users EXCEPT
        ![getOrCreateUser(us, platform, platformUserId, displayName).idx] =
            Credit(@, amount, type)]

spendTokens_unchecked(us, platform, platformUserId, amount) ==
    IF KeyIndex(us, platform, platformUserId) = 0
    THEN [users |-> us, success |-> FALSE, remainingTokens |-> 0, error |-> "noAccount"]
    ELSE [users |-> [us EXCEPT ![KeyIndex(us, platform, platformUserId)] =
                        [@ EXCEPT !.tokens = @ - amount,
                                  !.history = Append(@, Tx("spent", 0 - amount))]],
          success |-> TRUE,
          remainingTokens |-> us[KeyIndex(us, platform, platformUserId)].tokens - amount,
          error |-> "none"]

\* spendTokens
spendTokens(us, platform, platformUserId, amount) ==
    IF KeyIndex(us, platform, platformUserId) = 0
    THEN [users |-> us, success |-> FALSE, remainingTokens |-> 0, error |-> "noAccount"]
    ELSE IF us[KeyIndex(us, platform, platformUserId)].tokens < amount
    THEN [users |-> us, success |-> FALSE,
          remainingTokens |-> us[KeyIndex(us, platform, platformUserId)].tokens,
          error |-> "notEnough"]
    ELSE [users |-> [us EXCEPT ![KeyIndex(us, platform, platformUserId)] =
                        [@ EXCEPT !.tokens = @ - amount,
                                  !.history = Append(@, Tx("spent", 0 - amount))]],
          success |-> TRUE,
          remainingTokens |-> us[KeyIndex(us, platform, platformUserId)].tokens - amount,
          error |-> "none"]

\* getBalance
getBalance(us, platform, platformUserId) ==
    IF KeyIndex(us, platform, platformUserId) = 0
    THEN 0
    ELSE us[KeyIndex(us, platform, platformUserId)].tokens

\* findOrCreateByUsername: the accounts afterwards and the index of the one returned
findOrCreateByUsername(us, platform, username) ==
    IF findUserByDisplayName(us, platform, username) # 0
    THEN [users |-> us, idx |-> findUserByDisplayName(us, platform, username)]
    ELSE getOrCreateUser(us, platform, ToLower(username), username)

\* awardTokensByUsername
awardTokensByUsername(us, platform, username, amount) ==
    [findOrCreateByUsername(us, platform, username).users EXCEPT
        ![findOrCreateByUsername(us, platform, username).idx] = Credit(@, amount, "manual")]

\* setTokensByUsername
setTokensByUsername(us, platform, username, tokens) ==
    [findOrCreateByUsername(us, platform, username).users EXCEPT
        ![findOrCreateByUsername(us, platform, username).idx] = SetBalance(@, tokens)]

\* setUserTokens
setUserTokens(us, platform, platformUserId, displayName, tokens) ==
    [getOrCreateUser(us, platform, platformUserId, displayName).users EXCEPT
        ![getOrCreateUser(us, platform, platformUserId, displayName).idx] =
            SetBalance(@, tokens)]

\* setRates: the spread of a partial rates object over the current rates
setRates(rs, partial) ==
    [f \in DOMAIN rs |-> IF f \in DOMAIN partial THEN partial[f] ELSE rs[f]]

\* handleTwitchSubscription: the tokens of a tier
TierTokens(rs, tier) ==
    CASE tier = "Prime" -> rs.twitchPrime
      [] tier = "1000"  -> rs.twitchTier1
      [] tier = "2000"  -> rs.twitchTier2
      [] tier = "3000"  -> rs.twitchTier3
      [] OTHER          -> rs.twitchTier1

handleTwitchSubscription(us, rs, userId, displayName, tier) ==
    awardTokens(us, "twitch", userId, displayName, TierTokens(rs, tier), "subscription")

\* handleTwitchBits: the accounts afterwards (unchanged below the threshold)
handleTwitchBits(us, rs, userId, displayName, bits) ==
    IF bits < rs.twitchBitsAmount
    THEN us
    ELSE awardTokens(us, "twitch", userId, displayName,
                     (bits \div rs.twitchBitsAmount) * rs.twitchBitsTokens, "bits")

handleYouTubeMembership(us, rs, channelId, displayName) ==
    awardTokens(us, "youtube", channelId, displayName, rs.youtubeMember, "subscription")

\* Money is counted in cents: youtubeSuperChatMinimum is 250 for $2.50, and
\* amountMicros / 1000000 dollars are amountMicros / MicrosPerCent cents.
MicrosPerCent == 10000

\* handleYouTubeSuperChat: the accounts afterwards (unchanged below the minimum)
handleYouTubeSuperChat(us, rs, channelId, displayName, amountMicros) ==
    IF amountMicros < rs.youtubeSuperChatMinimum * MicrosPerCent
    THEN us
    ELSE awardTokens(us, "youtube", channelId, displayName,
                     (amountMicros \div (rs.youtubeSuperChatMinimum * MicrosPerCent))
                        * rs.youtubeSuperChat,
                     "superchat")

----------------------------------------------------------------------------
(* Initial state: empty queue file, empty ledger file, default rates *)

DEFAULT_RATES ==
    [twitchTier1 |-> 1, twitchTier2 |-> 2, twitchTier3 |-> 4, twitchPrime |-> 1,
     twitchBitsAmount |-> 250, twitchBitsTokens |-> 1,
     youtubeMember |-> 1, youtubeSuperChat |-> 1, youtubeSuperChatMinimum |-> 250]

Init ==
    /\ requests = <<>>
    /\ history = <<>>
    /\ userCooldowns = <<>>
    /\ maxRequestsPerUser \in 1..MaxLimit
    /\ cooldownSeconds \in 1..MaxCooldown
    /\ nextId = 1
    /\ now = 0
    /\ users = <<>>
    /\ rates = DEFAULT_RATES
    /\ handlers = <<>>
    /\ lastReply = "none"
    /\ rejected = FALSE
    /\ hasCredentials \in BOOLEAN
    /\ isLoggedIn = FALSE
    /\ cookies = ""
    /\ loginResult = "none"
    /\ searchCache = {}
    /\ cacheTimers = {}
    /\ searches = <<>>
    /\ lastSearch = "none"
    /\ lastStored = {}
    /\ isConnected = FALSE
    /\ nextPageToken = 0
    /\ polls = <<>>
    /\ liveChat = 0
    /\ dispatched = {}
    /\ loginPc = "idle"
    /\ nextUrl = "none"
    /\ redirectCount = 0
    /\ botManager = 0
    /\ instances = <<>>
    /\ ipc = <<>>
    /\ stopDone = FALSE

----------------------------------------------------------------------------
(* The clock *)

Tick ==
    /\ now < MaxTime
    /\ now' = now + 1
    /\ UNCHANGED <<queueVars, configVars, ledgerVars, cmdVars>>

----------------------------------------------------------------------------
(* QueueManager operations called directly *)

QAddRequest(c, song, isVIP) ==
    /\ requests' = InsertRequest(requests,
            NewRequest(nextId, song, c.userId, c.username, c.platform, isVIP, now))
    /\ userCooldowns' = SetCooldown(userCooldowns, c.userId, c.platform, now)
    /\ nextId' = nextId + 1
    /\ UNCHANGED <<history, configVars, now, ledgerVars, cmdVars>>

QPopNextRequest ==
    /\ requests' = popNextRequest(requests).requests
    /\ UNCHANGED <<history, userCooldowns, nextId, configVars, now, ledgerVars, cmdVars>>

QMarkCompleted(id) ==
    /\ requests' = markCompleted(requests, history, id).requests
    /\ history' = markCompleted(requests, history, id).history
    /\ UNCHANGED <<userCooldowns, nextId, configVars, now, ledgerVars, cmdVars>>

QSkipRequest(id) ==
    /\ requests' = skipRequest(requests, history, id).requests
    /\ history' = skipRequest(requests, history, id).history
    /\ UNCHANGED <<userCooldowns, nextId, configVars, now, ledgerVars, cmdVars>>

QClearQueue ==
    /\ requests' = clearQueue(requests, history).requests
    /\ history' = clearQueue(requests, history).history
    /\ UNCHANGED <<userCooldowns, nextId, configVars, now, ledgerVars, cmdVars>>

QRemoveUserRequest(username, platform) ==
    /\ requests' = removeUserRequest(requests, history, username, platform).requests
    /\ history' = removeUserRequest(requests, history, username, platform).history
    /\ UNCHANGED <<userCooldowns, nextId, configVars, now, ledgerVars, cmdVars>>

QRemovePendingAt(index) ==
    /\ requests' = removePendingAt(requests, history, index).requests
    /\ history' = removePendingAt(requests, history, index).history
    /\ UNCHANGED <<userCooldowns, nextId, configVars, now, ledgerVars, cmdVars>>

QReorderQueue(fromIndex, toIndex) ==
    /\ requests' = reorderQueue(requests, fromIndex, toIndex)
    /\ UNCHANGED <<history, userCooldowns, nextId, configVars, now, ledgerVars, cmdVars>>

\* One call of a public QueueManager operation; at most maxIds requests are created
QueueOp(maxIds) ==
    \/ \E c \in QueueCallers, song \in QueueSongs, isVIP \in BOOLEAN :
            nextId <= maxIds /\ QAddRequest(c, song, isVIP)
    \/ QPopNextRequest
    \/ \E id \in 1..maxIds : QMarkCompleted(id)
    \/ \E id \in 1..maxIds : QSkipRequest(id)
    \/ QClearQueue
    \/ \E c \in QueueCallers : QRemoveUserRequest(c.username, c.platform)
    \/ \E i \in -1..Len(getPendingRequests(requests)) : QRemovePendingAt(i)
    \/ \E i, j \in -1..Len(getPendingRequests(requests)) : QReorderQueue(i, j)

\* SpecQueue: the queue operations in any order, the clock standing still.
\* No queue operation but canUserRequest reads the two limits.
InitQueue ==
    /\ Init
    /\ maxRequestsPerUser = MaxLimit
    /\ cooldownSeconds = MaxCooldown
    /\ hasCredentials

NextQueue == QueueOp(MaxId)

SpecQueue == InitQueue /\ [][NextQueue]_vars

\* SpecAdmission: the queue operations in any order as time passes, for every
\* pair of limits.
NextAdmission == Tick \/ QueueOp(MaxTimedId)

InitAdmission == Init /\ hasCredentials

SpecAdmission == InitAdmission /\ [][NextAdmission]_vars

----------------------------------------------------------------------------
(* VIPTokenService operations called directly *)

quietQueue == <<queueVars, configVars, now, cmdVars>>

LEnsureUser(c) ==
    /\ users' = ensureUser(users, c.platform, c.userId, c.username)
    /\ UNCHANGED <<rates, quietQueue>>

LAwardTokens(c, amount) ==
    /\ users' = awardTokens(users, c.platform, c.userId, c.username, amount, "manual")
    /\ UNCHANGED <<rates, quietQueue>>

LSpendTokens(c, amount) ==
    /\ users' = spendTokens(users, c.platform, c.userId, amount).users
    /\ UNCHANGED <<rates, quietQueue>>

LFindOrCreateByUsername(t) ==
    /\ users' = findOrCreateByUsername(users, t.platform, t.username).users
    /\ UNCHANGED <<rates, quietQueue>>

LAwardTokensByUsername(t, amount) ==
    /\ users' = awardTokensByUsername(users, t.platform, t.username, amount)
    /\ UNCHANGED <<rates, quietQueue>>

LSetTokensByUsername(t, tokens) ==
    /\ users' = setTokensByUsername(users, t.platform, t.username, tokens)
    /\ UNCHANGED <<rates, quietQueue>>

LSetUserTokens(c, tokens) ==
    /\ users' = setUserTokens(users, c.platform, c.userId, c.username, tokens)
    /\ UNCHANGED <<rates, quietQueue>>

LSetRates(partial) ==
    /\ rates' = setRates(rates, partial)
    /\ UNCHANGED <<users, quietQueue>>

LTwitchSubscription(c, tier) ==
    /\ c.platform = "twitch"
    /\ users' = handleTwitchSubscription(users, rates, c.userId, c.username, tier)
    /\ UNCHANGED <<rates, quietQueue>>

LTwitchBits(c, bits) ==
    /\ c.platform = "twitch"
    /\ users' = handleTwitchBits(users, rates, c.userId, c.username, bits)
    /\ UNCHANGED <<rates, quietQueue>>

LYouTubeMembership(c) ==
    /\ c.platform = "youtube"
    /\ users' = handleYouTubeMembership(users, rates, c.userId, c.username)
    /\ UNCHANGED <<rates, quietQueue>>

LYouTubeSuperChat(c, amountMicros) ==
    /\ c.platform = "youtube"
    /\ users' = handleYouTubeSuperChat(users, rates, c.userId, c.username, amountMicros)
    /\ UNCHANGED <<rates, quietQueue>>

\* Transactions recorded over all accounts
RECURSIVE TotalTx(_)
TotalTx(us) == IF us = <<>> THEN 0 ELSE Len(us[1].history) + TotalTx(Tail(us))

\* A ledger operation, while the run stays within its bounds
Bounded(op) == op /\ TotalTx(users') <= MaxTx /\ Len(users') <= MaxAccounts

\* One call of a public VIPTokenService operation
LedgerOp ==
    \/ \E c \in LedgerCallers : Bounded(LEnsureUser(c))
    \/ \E c \in LedgerCallers, a \in AwardAmounts : Bounded(LAwardTokens(c, a))
    \/ \E c \in LedgerCallers, a \in SpendAmounts : Bounded(LSpendTokens(c, a))
    \/ \E t \in UsernameTargets : Bounded(LFindOrCreateByUsername(t))
    \/ \E t \in UsernameTargets, a \in AwardAmounts : Bounded(LAwardTokensByUsername(t, a))
    \/ \E t \in UsernameTargets, v \in SetValues : Bounded(LSetTokensByUsername(t, v))
    \/ \E c \in LedgerCallers, v \in SetValues : Bounded(LSetUserTokens(c, v))
    \/ \E partial \in RateUpdates : Bounded(LSetRates(partial))
    \/ \E c \in LedgerCallers, tier \in Tiers : Bounded(LTwitchSubscription(c, tier))
    \/ \E c \in LedgerCallers, bits \in BitsAmounts : Bounded(LTwitchBits(c, bits))
    \/ \E c \in LedgerCallers : Bounded(LYouTubeMembership(c))
    \/ \E c \in LedgerCallers, m \in SuperChatMicros : Bounded(LYouTubeSuperChat(c, m))

\* SpecLedger: the ledger operations in any order
NextLedger == LedgerOp

SpecLedger == InitQueue /\ [][NextLedger]_vars

----------------------------------------------------------------------------
(* SpecCap: the ledger operations on an account whose history is nearly full *)

CapCallers == { [platform |-> "twitch", userId |-> "1", username |-> "Ann"] }

\* The ledger after HistoryCap - 1 Prime subscriptions of one viewer
InitCap ==
    /\ requests = <<>>
    /\ history = <<>>
    /\ userCooldowns = <<>>
    /\ maxRequestsPerUser = MaxLimit
    /\ cooldownSeconds = MaxCooldown
    /\ nextId = 1
    /\ now = 0
    /\ rates = DEFAULT_RATES
    /\ handlers = <<>>
    /\ lastReply = "none"
    /\ rejected = FALSE
    /\ hasCredentials = TRUE
    /\ isLoggedIn = FALSE
    /\ cookies = ""
    /\ loginResult = "none"
    /\ searchCache = {}
    /\ cacheTimers = {}
    /\ searches = <<>>
    /\ lastSearch = "none"
    /\ lastStored = {}
    /\ isConnected = FALSE
    /\ nextPageToken = 0
    /\ polls = <<>>
    /\ liveChat = 0
    /\ dispatched = {}
    /\ loginPc = "idle"
    /\ nextUrl = "none"
    /\ redirectCount = 0
    /\ botManager = 0
    /\ instances = <<>>
    /\ ipc = <<>>
    /\ stopDone = FALSE
    /\ users = << [NewUser("twitch", "1", "Ann") EXCEPT
                      !.tokens = HistoryCap - 1,
                      !.totalEarned = HistoryCap - 1,
                      !.history = [i \in 1..(HistoryCap - 1) |-> Tx("subscription", 1)]] >>

\* A ledger operation, while the run stays within its bounds
CapBounded(op) ==
    /\ op
    /\ \A i \in DOMAIN users' :
            /\ Len(users'[i].history) <= HistoryCap + MaxOverCap
            /\ users'[i].totalEarned < HistoryCap + MaxCapEarned

NextCap ==
    \/ \E c \in CapCallers, a \in AwardAmounts : CapBounded(LAwardTokens(c, a))
    \/ \E c \in CapCallers, a \in SpendAmounts : CapBounded(LSpendTokens(c, a))
    \/ \E c \in CapCallers, v \in SetValues : CapBounded(LSetUserTokens(c, v))
    \/ \E c \in CapCallers, v \in SetValues :
            CapBounded(LSetTokensByUsername([platform |-> c.platform, username |-> c.username], v))
    \/ \E c \in CapCallers, tier \in Tiers : CapBounded(LTwitchSubscription(c, tier))

SpecCap == InitCap /\ [][NextCap]_vars

----------------------------------------------------------------------------
(* CommandProcessor: chat commands.  The chat clients call the message      *)
(* handler without awaiting it, so a handler that awaits searchSong is      *)
(* suspended while further messages are processed.  The code between two    *)
(* awaits runs without interruption.                                        *)

\* handleRequest up to its first searchSong: the reply sent, or "search" when
\* the handler goes on to the catalogue search
handleRequestCheck(c, hasArgs) ==
    IF ~hasArgs
    THEN "usage"
    ELSE IF ~canUserRequest(c.userId, c.platform).allowed
    THEN canUserRequest(c.userId, c.platform).reason
    ELSE "search"

handleVIPRequestCheck_noBalance(c, hasArgs) == handleRequestCheck(c, hasArgs)

\* handleVIPRequest up to its first searchSong
handleVIPRequestCheck(c, hasArgs) ==
    IF getBalance(users, c.platform, c.userId) < 1
    THEN "noTokens"
    ELSE handleRequestCheck(c, hasArgs)

\* The state a handler leaves behind when nothing is admitted
Unadmitted(reply) ==
    [requests |-> requests, userCooldowns |-> userCooldowns, nextId |-> nextId,
     users |-> users, reply |-> reply]

Admitted_keepBalance(c, song, isVIP, us, reply) ==
    [requests |-> InsertRequest(requests,
            NewRequest(nextId, song, c.userId, c.username, c.platform, isVIP, now)),
     userCooldowns |-> SetCooldown(userCooldowns, c.userId, c.platform, now),
     nextId |-> nextId + 1,
     users |-> users,
     reply |-> reply]

\* The state a handler leaves behind when it admits song for c
Admitted(c, song, isVIP, us, reply) ==
    [requests |-> InsertRequest(requests,
            NewRequest(nextId, song, c.userId, c.username, c.platform, isVIP, now)),
     userCooldowns |-> SetCooldown(userCooldowns, c.userId, c.platform, now),
     nextId |-> nextId + 1,
     users |-> us,
     reply |-> reply]

\* handleRequest after the search resolved to song
handleRequestCommit(c, song) ==
    IF isSongInQueue(requests, song.artist, song.title)
    THEN Unadmitted("duplicate")
    ELSE Admitted(c, song, FALSE, users, "added")

handleVIPRequestCommit_spendFirst(c, song) ==
    IF ~spendTokens(users, c.platform, c.userId, 1).success
    THEN Unadmitted("spendFailed")
    ELSE IF isSongInQueue(requests, song.artist, song.title)
    THEN [Unadmitted("duplicate") EXCEPT
            !.users = spendTokens(users, c.platform, c.userId, 1).users]
    ELSE Admitted(c, song, TRUE,
                  spendTokens(users, c.platform, c.userId, 1).users, "vipAdded")

\* handleVIPRequest after the search resolved to song
handleVIPRequestCommit(c, song) ==
    IF isSongInQueue(requests, song.artist, song.title)
    THEN Unadmitted("duplicate")
    ELSE IF ~spendTokens(users, c.platform, c.userId, 1).success
    THEN Unadmitted("spendFailed")
    ELSE Admitted(c, song, TRUE,
                  spendTokens(users, c.platform, c.userId, 1).users, "vipAdded")

\* A request command arrives: the handler replies and returns, or suspends
Receive(kind, c, outcome) ==
    /\ IF outcome = "search"
       THEN /\ Len(handlers) < MaxHandlers
            /\ nextId + Len(handlers) <= MaxCommands
            /\ handlers' = Append(handlers, [kind |-> kind, msg |-> c])
            /\ lastReply' = lastReply
       ELSE /\ handlers' = handlers
            /\ lastReply' = outcome
    /\ UNCHANGED <<queueVars, configVars, now, ledgerVars, rejected, serviceVars>>

ReceiveRequest(c, hasArgs) == Receive("request", c, handleRequestCheck(c, hasArgs))

ReceiveVIPRequest(c, hasArgs) ==
    Receive("viprequest", c, handleVIPRequestCheck(c, hasArgs))

\* The search of suspended handler h resolves to song and the handler runs on
SearchReturns(h, song) ==
    /\ h \in DOMAIN handlers
    /\ LET after == IF handlers[h].kind = "viprequest"
                    THEN handleVIPRequestCommit(handlers[h].msg, song)
                    ELSE handleRequestCommit(handlers[h].msg, song)
       IN  /\ requests' = after.requests
           /\ userCooldowns' = after.userCooldowns
           /\ nextId' = after.nextId
           /\ users' = after.users
           /\ lastReply' = after.reply
    /\ handlers' = SpliceOut(handlers, h - 1)
    /\ UNCHANGED <<history, configVars, now, rates, rejected, serviceVars>>

isMod_anyone(c) == TRUE

isMod(c) == c.isMod \/ c.isBroadcaster

quietCmd == <<userCooldowns, nextId, configVars, now, ledgerVars, handlers, serviceVars>>

\* !next
handleNext(c) ==
    /\ isMod(c)
    /\ requests' = popNextRequest(requests).requests
    /\ lastReply' = IF popNextRequest(requests).result # 0 THEN "nowPlaying" ELSE "queueEmpty"
    /\ UNCHANGED <<history, quietCmd>>

\* !played
handlePlayed(c) ==
    /\ isMod(c)
    /\ requests' = markCompleted(requests, history, nowPlaying(requests)).requests
    /\ history' = markCompleted(requests, history, nowPlaying(requests)).history
    /\ lastReply' = IF nowPlaying(requests) = 0 THEN "nothingPlaying"
                    ELSE IF getNextRequest(requests') # 0 THEN "playedUpNext"
                    ELSE "playedQueueEmpty"
    /\ UNCHANGED quietCmd

\* !skip without arguments: the playing entry, else the first pending one
handleSkip(c) ==
    /\ isMod(c)
    /\ LET target == IF nowPlaying(requests) # 0 THEN nowPlaying(requests)
                     ELSE getNextRequest(requests)
       IN  /\ requests' = skipRequest(requests, history, target).requests
           /\ history' = skipRequest(requests, history, target).history
           /\ lastReply' = IF target # 0 THEN "skipped" ELSE "nothingToSkip"
    /\ UNCHANGED quietCmd

\* !clear
handleClear(c) ==
    /\ IF c.isBroadcaster
       THEN /\ requests' = clearQueue(requests, history).requests
            /\ history' = clearQueue(requests, history).history
            /\ lastReply' = "cleared"
       ELSE /\ UNCHANGED <<requests, history>>
            /\ lastReply' = "broadcasterOnly"
    /\ UNCHANGED quietCmd

\* !remove
handleRemove(c) ==
    /\ requests' = removeUserRequest(requests, history, c.username, c.platform).requests
    /\ history' = removeUserRequest(requests, history, c.username, c.platform).history
    /\ lastReply' = IF removeUserRequest(requests, history, c.username, c.platform).result # 0
                    THEN "removed" ELSE "nothingToRemove"
    /\ UNCHANGED quietCmd

\* ChatClient.sendMessage: TRUE when the returned promise resolves.  The
\* Twitch client awaits client.say and fails with it; the YouTube client
\* catches and logs a failed insert.
sendMessage(c, sayOk) == c.platform = "youtube" \/ sayOk

\* processMessage for a command whose handler changes the state and then
\* awaits its reply: a failed reply throws out of the handler into the catch
\* block, which awaits the apology reply outside any try
processMessage(handler, c, sayOk, sayAgainOk) ==
    /\ handler
    /\ rejected' = (rejected \/ (~sendMessage(c, sayOk) /\ ~sendMessage(c, sayAgainOk)))

\* Transactions of one type recorded over all accounts
TxCount(us, type) ==
    Cardinality(UNION { { <<i, k>> : k \in { j \in DOMAIN us[i].history :
                                                us[i].history[j].type = type } } :
                        i \in DOMAIN us })

Subscriptions(us) == TxCount(us, "subscription")

\* One step of the running bot within one burst of chat (the clock stands
\* still): a chat message handled up to its next await, a resolved search, a
\* subscription event, or a reorder from the control panel
CmdOp ==
    \/ \E c \in CmdCallers, hasArgs \in BOOLEAN : ReceiveRequest(c, hasArgs)
    \/ \E c \in CmdCallers, hasArgs \in BOOLEAN : ReceiveVIPRequest(c, hasArgs)
    \/ \E h \in 1..MaxHandlers, k \in DOMAIN SongList :
            k <= nextId /\ SearchReturns(h, SongList[k])
    \/ \E c \in CmdCallers : processMessage(handleNext(c), c, TRUE, TRUE)
    \/ \E c \in CmdCallers : processMessage(handlePlayed(c), c, TRUE, TRUE)
    \/ \E c \in CmdCallers : processMessage(handleSkip(c), c, TRUE, TRUE)
    \/ \E c \in CmdCallers : processMessage(handleClear(c), c, TRUE, TRUE)
    \/ \E c \in CmdCallers : processMessage(handleRemove(c), c, TRUE, TRUE)
    \/ \E c \in Subscribers, tier \in CmdTiers :
            Subscriptions(users) < MaxSubscriptions /\ LTwitchSubscription(c, tier)
    \/ \E i, j \in 0..(MaxCommands - 1) : QReorderQueue(i, j)

NextCmd == CmdOp

SpecCmd == InitQueue /\ [][NextCmd]_vars

\* SpecRace: request commands handled at once by viewers whose Prime
\* subscriptions are worth one token each
NextRace ==
    \/ \E c \in CmdCallers, hasArgs \in BOOLEAN : ReceiveRequest(c, hasArgs)
    \/ \E c \in CmdCallers, hasArgs \in BOOLEAN : ReceiveVIPRequest(c, hasArgs)
    \/ \E h \in 1..MaxHandlers, k \in DOMAIN SongList :
            k <= nextId /\ SearchReturns(h, SongList[k])
    \/ \E c \in Subscribers :
            Subscriptions(users) < MaxSubscriptions /\ LTwitchSubscription(c, "Prime")

SpecRace == InitQueue /\ [][NextRace]_vars

\* What a search resolves to when the catalogue and the requesters spell one
\* song in two letter cases
CaseSongs == { [artist |-> "Muse", title |-> "Uprising"],
               [artist |-> "MUSE", title |-> "UPRISING"] }

\* SpecCase: the steps of SpecCmd with the searches resolving to CaseSongs
NextCase ==
    \/ \E c \in CmdCallers, hasArgs \in BOOLEAN : ReceiveRequest(c, hasArgs)
    \/ \E c \in CmdCallers, hasArgs \in BOOLEAN : ReceiveVIPRequest(c, hasArgs)
    \/ \E h \in 1..MaxHandlers, song \in CaseSongs : SearchReturns(h, song)
    \/ \E c \in CmdCallers : processMessage(handleNext(c), c, TRUE, TRUE)
    \/ \E c \in CmdCallers : processMessage(handlePlayed(c), c, TRUE, TRUE)
    \/ \E c \in CmdCallers : processMessage(handleSkip(c), c, TRUE, TRUE)
    \/ \E c \in CmdCallers : processMessage(handleClear(c), c, TRUE, TRUE)
    \/ \E c \in CmdCallers : processMessage(handleRemove(c), c, TRUE, TRUE)
    \/ \E c \in Subscribers, tier \in CmdTiers :
            Subscriptions(users) < MaxSubscriptions /\ LTwitchSubscription(c, tier)
    \/ \E i, j \in 0..(MaxCommands - 1) : QReorderQueue(i, j)

SpecCase == InitQueue /\ [][NextCase]_vars

\* Two YouTube viewers whose channels carry the same display name
NamesakeCallers == { [platform |-> "youtube", userId |-> "1", username |-> "Ann"],
                     [platform |-> "youtube", userId |-> "2", username |-> "Ann"] }

\* SpecNamesake: requests and !remove commands of the two viewers while the
\* queue is being played
NextNamesake ==
    \/ \E c \in NamesakeCallers, song \in QueueSongs :
            nextId <= MaxId /\ QAddRequest(c, song, FALSE)
    \/ \E c \in NamesakeCallers : processMessage(handleRemove(c), c, TRUE, TRUE)
    \/ QPopNextRequest

SpecNamesake == InitQueue /\ [][NextNamesake]_vars

\* SpecDispatch: the commands that need no catalogue search, sent over a chat
\* connection whose sends can fail, while requests are admitted
MaxDispatchId == 2

NextDispatch ==
    \/ \E c \in CmdCallers, song \in QueueSongs, isVIP \in BOOLEAN :
            nextId <= MaxDispatchId /\ QAddRequest(c, song, isVIP)
    \/ \E c \in CmdCallers, sayOk, sayAgainOk \in BOOLEAN :
            processMessage(handleNext(c), c, sayOk, sayAgainOk)
    \/ \E c \in CmdCallers, sayOk, sayAgainOk \in BOOLEAN :
            processMessage(handlePlayed(c), c, sayOk, sayAgainOk)
    \/ \E c \in CmdCallers, sayOk, sayAgainOk \in BOOLEAN :
            processMessage(handleSkip(c), c, sayOk, sayAgainOk)
    \/ \E c \in CmdCallers, sayOk, sayAgainOk \in BOOLEAN :
            processMessage(handleClear(c), c, sayOk, sayAgainOk)
    \/ \E c \in CmdCallers, sayOk, sayAgainOk \in BOOLEAN :
            processMessage(handleRemove(c), c, sayOk, sayAgainOk)

SpecDispatch == InitQueue /\ [][NextDispatch]_vars

----------------------------------------------------------------------------
(* The moderator commands that write the ledger *)

\* A viewer, a moderator and the broadcaster
ModCallers == { [platform |-> "twitch", userId |-> "1", username |-> "Ann",
                 isMod |-> FALSE, isBroadcaster |-> FALSE],
                [platform |-> "twitch", userId |-> "2", username |-> "Bob",
                 isMod |-> TRUE, isBroadcaster |-> FALSE],
                [platform |-> "twitch", userId |-> "9", username |-> "Host",
                 isMod |-> FALSE, isBroadcaster |-> TRUE] }

GiveTargets == {"ann"}
GiveAmounts == {0, 2}          \* parseInt(args[1]); 0 stands for every rejected value
TierArgs == {"3", "1"}
BitsArgs == {0, 100}           \* parseInt(args[0]); 0 stands for a missing or unreadable one
DollarArgs == {0, 5, 5000000}  \* parseFloat(args[0]); 0 stands for a missing or unreadable one

quietLedgerCmd == <<queueVars, configVars, now, rates, handlers, serviceVars>>

\* handleGiveVIP: the first account whose name or user id is the target in
\* some letter case, 0 when there is none
GiveTarget(us, target) ==
    LET found == { i \in DOMAIN us : \/ ToLower(us[i].displayName) = ToLower(target)
                                     \/ ToLower(us[i].platformUserId) = ToLower(target) }
    IN  IF found = {} THEN 0 ELSE MinOf(found)

\* !givevip <target> <amount>
handleGiveVIP(c, hasArgs, target, amount) ==
    /\ isMod(c)
    /\ IF ~hasArgs
       THEN users' = users /\ lastReply' = "giveUsage"
       ELSE IF amount <= 0
       THEN users' = users /\ lastReply' = "givePositive"
       ELSE IF GiveTarget(users, target) # 0
       THEN /\ users' = awardTokens(users, users[GiveTarget(users, target)].platform,
                                    users[GiveTarget(users, target)].platformUserId,
                                    users[GiveTarget(users, target)].displayName,
                                    amount, "manual")
            /\ lastReply' = "gave"
       ELSE /\ users' = awardTokens(users, c.platform, ToLower(target), target,
                                    amount, "manual")
            /\ lastReply' = "createdAndGave"
    /\ UNCHANGED quietLedgerCmd

\* handleTestSub: the tier of the argument
TestTier(tierArg) ==
    CASE tierArg = "prime" -> "Prime"
      [] tierArg = "2"     -> "2000"
      [] tierArg = "3"     -> "3000"
      [] OTHER             -> "1000"

\* !testsub [tier]
handleTestSub(c, tierArg) ==
    /\ isMod(c)
    /\ users' = handleTwitchSubscription(users, rates, c.userId, c.username,
                                         TestTier(tierArg))
    /\ lastReply' = "testSub"
    /\ UNCHANGED quietLedgerCmd

\* !testbits [bits]
handleTestBits(c, bitsArg) ==
    /\ isMod(c)
    /\ LET bits == IF bitsArg = 0 THEN 250 ELSE bitsArg
       IN  IF bits <= 0
           THEN users' = users /\ lastReply' = "positiveBits"
           ELSE /\ users' = handleTwitchBits(users, rates, c.userId, c.username, bits)
                /\ lastReply' = IF bits < rates.twitchBitsAmount
                                THEN "testBitsNone" ELSE "testBits"
    /\ UNCHANGED quietLedgerCmd

\* !testsuperchat [dollars]: the dollars are handed to handleYouTubeSuperChat
\* as they are, in the place of amountMicros
handleTestSuperChat(c, dollarArg) ==
    /\ isMod(c)
    /\ LET amount == IF dollarArg = 0 THEN 5 ELSE dollarArg
       IN  IF amount <= 0
           THEN users' = users /\ lastReply' = "positiveAmount"
           ELSE /\ users' = handleYouTubeSuperChat(users, rates, c.userId, c.username,
                                                   amount)
                /\ lastReply' = IF amount < rates.youtubeSuperChatMinimum * MicrosPerCent
                                THEN "testSuperChatNone" ELSE "testSuperChat"
    /\ UNCHANGED quietLedgerCmd

\* The dispatch table of registerCommands
Commands == {"request", "sr", "viprequest", "vipsr", "vipsong", "list", "queue", "song",
             "position", "myqueue", "remove", "help", "tokens", "vip", "next", "played",
             "skip", "clear", "givevip", "testsub", "testbits", "testsuperchat"}

prefix == "!"

\* Trimmed chat texts: the first character and the rest of the first word
ChatTexts == { [head |-> "!", word |-> "next"],
               [head |-> "!", word |-> "CLEAR"],
               [head |-> "!", word |-> "dance"],
               [head |-> "!", word |-> ""],
               [head |-> "?", word |-> "next"],
               [head |-> "c", word |-> "lear"] }

commandOf_anyHead(text) ==
    IF ToLower(text.word) \in Commands THEN ToLower(text.word) ELSE "none"

\* processMessage: the key looked up in the dispatch table, "none" when the
\* call returns without a handler
commandOf(text) ==
    IF text.head # prefix THEN "none"
    ELSE IF ToLower(text.word) \in Commands THEN ToLower(text.word)
    ELSE "none"

\* A chat message arrives
OnMessage(c, text) ==
    CASE commandOf(text) = "next"  -> processMessage(handleNext(c), c, TRUE, TRUE)
      [] commandOf(text) = "clear" -> processMessage(handleClear(c), c, TRUE, TRUE)
      [] commandOf(text) = "none"  -> UNCHANGED vars

MaxModId == 2
MaxModTx == 2
MaxModAccounts == 2

\* A moderator command, while the run stays within its bounds
ModBounded(op) == op /\ TotalTx(users') <= MaxModTx /\ Len(users') <= MaxModAccounts

\* SpecMod: the moderator commands sent by a viewer, a moderator and the
\* broadcaster while requests are admitted
NextMod ==
    \/ \E c \in ModCallers, song \in QueueSongs :
            nextId <= MaxModId /\ ~c.isMod /\ ~c.isBroadcaster /\ QAddRequest(c, song, FALSE)
    \/ \E c \in ModCallers : processMessage(handleNext(c), c, TRUE, TRUE)
    \/ \E c \in ModCallers : processMessage(handlePlayed(c), c, TRUE, TRUE)
    \/ \E c \in ModCallers : processMessage(handleSkip(c), c, TRUE, TRUE)
    \/ \E c \in ModCallers : processMessage(handleClear(c), c, TRUE, TRUE)
    \/ \E c \in ModCallers, hasArgs \in BOOLEAN, target \in GiveTargets, amount \in GiveAmounts :
            ModBounded(processMessage(handleGiveVIP(c, hasArgs, target, amount), c, TRUE, TRUE))
    \/ \E c \in ModCallers, tierArg \in TierArgs :
            ModBounded(processMessage(handleTestSub(c, tierArg), c, TRUE, TRUE))
    \/ \E c \in ModCallers, bitsArg \in BitsArgs :
            ModBounded(processMessage(handleTestBits(c, bitsArg), c, TRUE, TRUE))
    \/ \E c \in ModCallers, dollarArg \in DollarArgs :
            ModBounded(processMessage(handleTestSuperChat(c, dollarArg), c, TRUE, TRUE))

    \/ \E c \in ModCallers, text \in ChatTexts : OnMessage(c, text)

SpecMod == InitQueue /\ [][NextMod]_vars

\* SpecGift: tokens granted by username from the control panel or by
\* !givevip, subscriptions, and priority requests
NextGift ==
    \/ \E c \in ModCallers, hasArgs \in BOOLEAN, target \in GiveTargets, amount \in GiveAmounts :
            ModBounded(processMessage(handleGiveVIP(c, hasArgs, target, amount), c, TRUE, TRUE))
    \/ \E t \in UsernameTargets, a \in AwardAmounts :
            ModBounded(LAwardTokensByUsername(t, a))
    \/ \E c \in ModCallers, tier \in CmdTiers : ModBounded(LTwitchSubscription(c, tier))
    \/ \E c \in ModCallers, hasArgs \in BOOLEAN : ReceiveVIPRequest(c, hasArgs)
    \/ \E h \in 1..MaxHandlers, k \in DOMAIN SongList :
            k <= nextId /\ SearchReturns(h, SongList[k])

SpecGift == InitQueue /\ [][NextGift]_vars

\* One of the moderator commands sent by c, with any arguments
ModCommand(c) ==
    \/ handleNext(c)
    \/ handlePlayed(c)
    \/ handleSkip(c)
    \/ \E hasArgs \in BOOLEAN, target \in GiveTargets, amount \in GiveAmounts :
            handleGiveVIP(c, hasArgs, target, amount)
    \/ \E tierArg \in TierArgs : handleTestSub(c, tierArg)
    \/ \E bitsArg \in BitsArgs : handleTestBits(c, bitsArg)
    \/ \E dollarArg \in DollarArgs : handleTestSuperChat(c, dollarArg)

\* C23: next, played, skip, givevip, testsub, testbits and testsuperchat sent
\* by a caller who is neither moderator nor broadcaster change neither the
\* queue nor the ledger; clear sent by anyone but the broadcaster leaves the
\* queue as it is and is answered with the rejection.
C23_ModCommandsGuarded ==
    [][\A c \in ModCallers :
        /\ (~c.isMod /\ ~c.isBroadcaster /\ ModCommand(c))
                => UNCHANGED <<queueVars, ledgerVars>>
        /\ (~c.isBroadcaster /\ handleClear(c))
                => UNCHANGED <<queueVars, ledgerVars>> /\ lastReply' = "broadcasterOnly"]_vars

\* C23 witness: with a song playing and an award on the ledger,
\* a clear that was not the broadcaster's has been turned down.
C23_Witness ==
    /\ lastReply = "broadcasterOnly"
    /\ \E i \in DOMAIN requests : requests[i].status = "playing"
    /\ \E i \in DOMAIN users : users[i].history # <<>>

\* The text does not start with the prefix, or its keyword is no command
Unrouted(text) == text.head # "!" \/ ToLower(text.word) \notin Commands

\* C24: a message that does not start with the command prefix, or whose
\* keyword is not in the dispatch table, reaches no handler, gets no reply and
\* leaves queue, cooldowns and ledger as they are.
C24_OtherTextIgnored ==
    /\ [](\A text \in ChatTexts : Unrouted(text) => commandOf(text) = "none")
    /\ [][\A c \in ModCallers, text \in ChatTexts :
            (Unrouted(text) /\ OnMessage(c, text))
                => UNCHANGED <<queueVars, ledgerVars, lastReply>>]_vars

\* C24 witness: a state in which a routed command would act and in which
\* an unrouted text is received: one song playing, one pending, an account in
\* the ledger and a reply already given.
C24_Witness ==
    /\ \E i \in DOMAIN requests : requests[i].status = "playing"
    /\ \E i \in DOMAIN requests : requests[i].status = "pending"
    /\ Len(users) > 0
    /\ lastReply = "nowPlaying"
    /\ \E text \in ChatTexts : Unrouted(text) /\ text.word = "next"

----------------------------------------------------------------------------
(* YouTubeClient: polling the live chat.  A page token stands for a place   *)
(* in the live chat: token t asks for the items from the t-th on, no token  *)
(* asks for all of them.                                                    *)

\* The items viewers post to the live chat, in order.  The text carries no
\* command prefix.
ChatLog == << [type |-> "superChatEvent", channelId |-> "1", displayName |-> "Ann",
               amountMicros |-> 5000000],
              [type |-> "textMessageEvent", channelId |-> "1", displayName |-> "Ann",
               amountMicros |-> 0],
              [type |-> "newSponsorEvent", channelId |-> "2", displayName |-> "Bob",
               amountMicros |-> 0] >>

MaxPolls == 2       \* liveChatMessages.list calls in flight at once
MaxChatTx == 3      \* transactions recorded in one run of SpecYouTube

\* pollMessages: the switch on the type of one item, with the handlers
\* BotManager registers
Dispatch(us, rs, item) ==
    CASE item.type = "superChatEvent" ->
            handleYouTubeSuperChat(us, rs, item.channelId, item.displayName,
                                   item.amountMicros)
      [] item.type = "newSponsorEvent" ->
            handleYouTubeMembership(us, rs, item.channelId, item.displayName)
      [] OTHER -> us

\* pollMessages: the loop over the items from-th to to-th of the live chat
RECURSIVE DispatchAll(_, _, _, _)
DispatchAll(us, rs, from, to) ==
    IF from > to THEN us
    ELSE DispatchAll(Dispatch(us, rs, ChatLog[from]), rs, from + 1, to)

\* pollMessages up to its await: the list call leaves with the token held
\* now.  Field first is a history field: the call is the one startPolling makes.
pollMessages(first) ==
    /\ isConnected'
    /\ Len(polls) < MaxPolls
    /\ polls' = Append(polls, [pageToken |-> nextPageToken, first |-> first])

\* connect with a live chat id configured: startPolling sets the timer and polls
YouTubeConnect ==
    /\ ~isConnected
    /\ isConnected' = TRUE
    /\ pollMessages(TRUE)
    /\ UNCHANGED <<queueVars, configVars, now, ledgerVars, handlers, lastReply, rejected,
                   loginVars, searchVars, botVars, nextPageToken, liveChat, dispatched>>

\* The 5 second timer fires
YouTubeTimer ==
    /\ isConnected
    /\ isConnected' = isConnected
    /\ pollMessages(FALSE)
    /\ UNCHANGED <<queueVars, configVars, now, ledgerVars, handlers, lastReply, rejected,
                   loginVars, searchVars, botVars, nextPageToken, liveChat, dispatched>>

\* First item a list call with this page token returns
FirstItem(pageToken) == IF pageToken = 0 THEN 1 ELSE pageToken

\* The p-th waiting list call is answered, with or without a nextPageToken:
\* pollMessages from its await on
YouTubePollReturns(p, hasToken) ==
    /\ p \in DOMAIN polls
    /\ nextPageToken' = IF hasToken THEN liveChat + 1 ELSE 0
    /\ IF nextPageToken' = 0
       THEN users' = users /\ dispatched' = dispatched
       ELSE /\ users' = DispatchAll(users, rates, FirstItem(polls[p].pageToken), liveChat)
            /\ dispatched' = dispatched \cup (FirstItem(polls[p].pageToken)..liveChat)
    /\ TotalTx(users') <= MaxChatTx
    /\ polls' = SpliceOut(polls, p - 1)
    /\ UNCHANGED <<queueVars, configVars, now, rates, handlers, lastReply, rejected,
                   loginVars, searchVars, botVars, isConnected, liveChat>>

\* The p-th waiting list call fails: the catch block
YouTubePollFails(p, notFound) ==
    /\ p \in DOMAIN polls
    /\ isConnected' = IF notFound THEN FALSE ELSE isConnected
    /\ polls' = SpliceOut(polls, p - 1)
    /\ UNCHANGED <<queueVars, configVars, now, ledgerVars, handlers, lastReply, rejected,
                   loginVars, searchVars, botVars, nextPageToken, liveChat, dispatched>>

\* disconnect
YouTubeDisconnect ==
    /\ isConnected
    /\ isConnected' = FALSE
    /\ UNCHANGED <<queueVars, configVars, now, ledgerVars, handlers, lastReply, rejected,
                   loginVars, searchVars, botVars, nextPageToken, polls, liveChat, dispatched>>

\* A viewer posts the next item to the live chat
ViewerPosts ==
    /\ liveChat < Len(ChatLog)
    /\ liveChat' = liveChat + 1
    /\ UNCHANGED <<queueVars, configVars, now, ledgerVars, handlers, lastReply, rejected,
                   loginVars, searchVars, botVars, isConnected, nextPageToken, polls, dispatched>>

NextYouTube ==
    \/ YouTubeConnect
    \/ YouTubeTimer
    \/ \E p \in 1..MaxPolls, hasToken \in BOOLEAN : YouTubePollReturns(p, hasToken)
    \/ \E p \in 1..MaxPolls, notFound \in BOOLEAN : YouTubePollFails(p, notFound)
    \/ YouTubeDisconnect
    \/ ViewerPosts

\* SpecYouTube: one YouTube client polling a live chat that viewers post to
SpecYouTube == InitQueue /\ [][NextYouTube]_vars

----------------------------------------------------------------------------
(* handleRequest when the catalogue has no candidate for any search *)

\* The words of a request text (ctx.args)
RequestArgs == { <<"Muse", "-", "Uprising">>,
                 <<"uprising", "by", "muse">>,
                 <<"muse", "uprising">>,
                 <<"Muse", "Uprising">>,
                 <<"Uprising">> }

\* args.join(' ')
RECURSIVE Join(_)
Join(words) ==
    IF Len(words) = 0 THEN ""
    ELSE IF Len(words) = 1 THEN words[1]
    ELSE words[1] \o " " \o Join(Tail(words))

\* Where the text has ' - ', and where it has ' by ' in any letter case
DashAt(words) == { i \in 2..(Len(words) - 1) : words[i] = "-" }
ByAt(words) == { i \in 2..(Len(words) - 1) : ToLower(words[i]) = "by" }

\* CustomsforgeService.parseRequest on a text that is not blank and has no
\* two dashes in a row
parseRequest(words) ==
    LET dashes == DashAt(words)
        bys == ByAt(words)
        d1 == MinOf(dashes)
        d2 == MinOf({ i \in dashes \cup {Len(words) + 1} : i > d1 })
        b1 == MinOf(bys)
    IN  IF dashes # {} /\ d2 > d1 + 1
        THEN [artist |-> Join(SubSeq(words, 1, d1 - 1)),
              title |-> Join(SubSeq(words, d1 + 1, d2 - 1))]
        ELSE IF bys # {}
        THEN [artist |-> Join(SubSeq(words, b1 + 1, Len(words))),
              title |-> Join(SubSeq(words, 1, b1 - 1))]
        ELSE [artist |-> "", title |-> Join(words)]

\* w[0] === w[0].toUpperCase()
StartsUpper(w) == ToLower(w) # w \/ w = "-"

\* guessArtistTitleFromFreeform
guessArtistTitleFromFreeform(words) ==
    IF Len(words) < 2
    THEN [artist |-> "", title |-> Join(words)]
    ELSE IF \A i \in DOMAIN words : ToLower(words[i]) = words[i]
    THEN [artist |-> words[1], title |-> Join(Tail(words))]
    ELSE IF Len(words) = 2 /\ StartsUpper(words[1]) /\ ~StartsUpper(words[2])
    THEN [artist |-> words[1], title |-> words[2]]
    ELSE [artist |-> "", title |-> Join(words)]

\* handleRequest: the pair the searches and the fallback go by
effective(words) ==
    IF DashAt(words) # {} \/ ByAt(words) # {}
    THEN parseRequest(words)
    ELSE guessArtistTitleFromFreeform(words)

\* handleRequest: the song enqueued when no search found a candidate
fallbackSong(words) ==
    [artist |-> IF effective(words).artist # "" THEN effective(words).artist
                ELSE "Unknown Artist",
     title |-> IF effective(words).title # "" THEN effective(words).title
               ELSE Join(words)]

\* !request <words> arrives: the handler replies and returns, or goes on to
\* its searches
ReceiveText(c, words) ==
    /\ IF handleRequestCheck(c, TRUE) = "search"
       THEN /\ Len(handlers) < MaxHandlers
            /\ nextId + Len(handlers) <= MaxCommands
            /\ handlers' = Append(handlers, [kind |-> "request", msg |-> c, args |-> words])
            /\ lastReply' = lastReply
       ELSE /\ handlers' = handlers
            /\ lastReply' = handleRequestCheck(c, TRUE)
    /\ UNCHANGED <<queueVars, configVars, now, ledgerVars, rejected, serviceVars>>

\* Every search of suspended handler h came back without a candidate and
\* the handler runs on with its fallback song
NoCandidates(h) ==
    /\ h \in DOMAIN handlers
    /\ LET after == handleRequestCommit(handlers[h].msg, fallbackSong(handlers[h].args))
       IN  /\ requests' = after.requests
           /\ userCooldowns' = after.userCooldowns
           /\ nextId' = after.nextId
           /\ users' = after.users
           /\ lastReply' = after.reply
    /\ handlers' = SpliceOut(handlers, h - 1)
    /\ UNCHANGED <<history, configVars, now, rates, rejected, serviceVars>>

\* SpecFallback: requests within one burst of chat (the clock stands still)
\* while the catalogue finds nothing and the queue is being played
NextFallback ==
    \/ \E c \in CmdCallers, words \in RequestArgs : ReceiveText(c, words)
    \/ \E h \in 1..MaxHandlers : NoCandidates(h)
    \/ \E c \in CmdCallers : processMessage(handleNext(c), c, TRUE, TRUE)
    \/ \E c \in CmdCallers : processMessage(handlePlayed(c), c, TRUE, TRUE)

SpecFallback == InitQueue /\ [][NextFallback]_vars

ToUpper(s) ==
    CASE s \in {"Muse", "muse"}         -> "MUSE"
      [] s \in {"Uprising", "uprising"} -> "UPRISING"
      [] s = "Muse Uprising"            -> "MUSE UPRISING"
      [] s = "Unknown Artist"           -> "UNKNOWN ARTIST"
      [] OTHER                          -> s

LetterCases(s) == {s, ToLower(s), ToUpper(s)}

\* A pending entry holds the pair in some letter case
PendingPair(reqs, artist, title) ==
    \E i \in DOMAIN reqs :
        /\ reqs[i].status = "pending"
        /\ ToLower(reqs[i].song.artist) = ToLower(artist)
        /\ ToLower(reqs[i].song.title) = ToLower(title)

\* The step enqueues for handler h one pending entry with this pair
EnqueuesPair(h, artist, title) ==
    /\ Len(requests') = Len(requests) + 1
    /\ \E i \in DOMAIN requests' :
        /\ requests'[i].id = nextId
        /\ requests'[i].status = "pending"
        /\ requests'[i].song.artist = artist
        /\ requests'[i].song.title = title
        /\ requests'[i].requestedBy = handlers[h].msg.username
    /\ \A a \in LetterCases(artist), t \in LetterCases(title) : isSongInQueue(requests', a, t)

\* The artist of the fallback song: the parsed or guessed one, or a placeholder
ArtistOrUnknown(words) ==
    IF effective(words).artist = "" THEN "Unknown Artist" ELSE effective(words).artist

\* C20: when no search finds a candidate the request is enqueued with the
\* parsed or guessed title and artist, the artist being 'Unknown Artist' when
\* none was parsed or guessed; while an entry is pending isSongInQueue is true
\* of its pair in any letter case, and a request whose fallback is that pair is
\* rejected as already queued.
C20_FallbackEnqueued ==
    /\ [](\A i \in DOMAIN requests :
            requests[i].status = "pending"
                => \A a \in LetterCases(requests[i].song.artist),
                      t \in LetterCases(requests[i].song.title) :
                        isSongInQueue(requests, a, t))
    /\ [][\A h \in 1..MaxHandlers :
            NoCandidates(h)
                => IF PendingPair(requests, ArtistOrUnknown(handlers[h].args),
                                  effective(handlers[h].args).title)
                   THEN requests' = requests /\ lastReply' = "duplicate"
                   ELSE EnqueuesPair(h, ArtistOrUnknown(handlers[h].args),
                                     effective(handlers[h].args).title)]_vars

\* C20 witness: a request of one word was enqueued under the placeholder
\* artist and the same request, sent again, was rejected as already queued.
C20_Witness ==
    /\ nextId = 2
    /\ handlers = <<>>
    /\ lastReply = "duplicate"
    /\ Len(requests) = 1
    /\ requests[1].status = "pending"
    /\ requests[1].song = [artist |-> "Unknown Artist", title |-> "Uprising"]

\* C20 as stated: the entry enqueued holds exactly the parsed or guessed pair,
\* and isSongInQueue is true of that pair from then on.
C20_FallbackEnqueuesGuess ==
    [][\A h \in 1..MaxHandlers :
            NoCandidates(h)
                => IF PendingPair(requests, effective(handlers[h].args).artist,
                                  effective(handlers[h].args).title)
                   THEN requests' = requests /\ lastReply' = "duplicate"
                   ELSE EnqueuesPair(h, effective(handlers[h].args).artist,
                                     effective(handlers[h].args).title)]_vars

----------------------------------------------------------------------------
(* CustomsforgeService: the catalogue session and the search cache *)

\* cacheExpiry, 30 minutes, counted in clock steps of 15 minutes
cacheExpiry == 2

MaxServiceTime == 3
MaxSearches == 2

Queries == {"Muse", "muse", "Tool"}
SearchResults == {"found", "notFound"}

\* How the network attempts of one searchSong call go: one of them finds
\* songs, they answer without songs, or every one of them fails (an HTTP
\* error status or a thrown fetch error)
NetworkOutcomes == {"found", "notFound", "failed"}

\* performSearch over the query variants: the result handed back to searchSong
performSearch(outcome) == IF outcome = "failed" THEN "notFound" ELSE outcome

\* How the requests of one login attempt go
LoginOutcomes == {"throwsEarly",      \* a request before the probe throws
                  "noForumCookie",    \* phase 1 sets no member cookie
                  "probeThrows",      \* the probe request throws
                  "probeOk",          \* the probe answers 200
                  "probeFailed"}      \* the probe answers another status

Returned(loggedIn, cks, result) ==
    [isLoggedIn |-> loggedIn, cookies |-> cks, result |-> result]

\* login(force)
login(force, outcome) ==
    IF ~hasCredentials
    THEN Returned(isLoggedIn, cookies, "false")
    ELSE IF isLoggedIn /\ ~force
    THEN Returned(isLoggedIn, cookies, "true")
    ELSE CASE outcome = "throwsEarly"   -> Returned(isLoggedIn, cookies, "false")
           [] outcome = "noForumCookie" -> Returned(isLoggedIn, cookies, "false")
           [] outcome = "probeThrows"   -> Returned(isLoggedIn, "session", "false")
           [] outcome = "probeOk"       -> Returned(TRUE, "session", "true")
           [] outcome = "probeFailed"   -> Returned(TRUE, "session", "true")

\* The login call reaches its probe request
ReachesProbe(force, outcome) ==
    /\ hasCredentials
    /\ ~isLoggedIn \/ force
    /\ outcome \in {"probeThrows", "probeOk", "probeFailed"}

SLogin(force, outcome) ==
    /\ isLoggedIn' = login(force, outcome).isLoggedIn
    /\ cookies' = login(force, outcome).cookies
    /\ loginResult' = login(force, outcome).result
    /\ UNCHANGED <<queueVars, configVars, now, ledgerVars, handlers, lastReply,
                   rejected, hasCredentials, loginStepVars, searchVars, youtubeVars, botVars>>

cacheKey(query) == ToLower(query)

Cached(key) == { e \in searchCache : e.key = key }

\* searchSong up to its first await: answered from the cache, or off to the network
SSearchSong(query) ==
    /\ IF Cached(cacheKey(query)) # {}
       THEN /\ lastSearch' = [query |-> query, from |-> "cache",
                              result |-> (CHOOSE e \in Cached(cacheKey(query)) : TRUE).result]
            /\ searches' = searches
       ELSE /\ Len(searches) < MaxSearches
            /\ searches' = Append(searches, query)
            /\ lastSearch' = lastSearch
    /\ UNCHANGED <<queueVars, configVars, now, ledgerVars, handlers, lastReply,
                   rejected, loginVars, searchCache, cacheTimers, lastStored,
                   youtubeVars, botVars>>

\* The network answers the i-th waiting searchSong call: the result is
\* stored and a timer is set to delete the key
SSearchCompletes(i, result) ==
    /\ i \in DOMAIN searches
    /\ LET key == cacheKey(searches[i])
       IN  /\ searchCache' = (searchCache \ Cached(key)) \cup {[key |-> key, result |-> result]}
           /\ cacheTimers' = cacheTimers \cup {[key |-> key, due |-> now + cacheExpiry]}
           /\ lastStored' = { e \in lastStored : e.key # key }
                                \cup {[key |-> key, result |-> result, at |-> now]}
           /\ lastSearch' = [query |-> searches[i], from |-> "network", result |-> result]
    /\ searches' = SpliceOut(searches, i - 1)
    /\ UNCHANGED <<queueVars, configVars, now, ledgerVars, handlers, lastReply,
                   rejected, loginVars, youtubeVars, botVars>>

\* The clock advances and the timers that are due run
STick ==
    /\ now < MaxServiceTime
    /\ now' = now + 1
    /\ searchCache' = { e \in searchCache :
                            \A t \in cacheTimers : t.key = e.key => t.due > now' }
    /\ cacheTimers' = { t \in cacheTimers : t.due > now' }
    /\ UNCHANGED <<queueVars, configVars, ledgerVars, handlers, lastReply, rejected,
                   loginVars, searches, lastSearch, lastStored, youtubeVars, botVars>>

InitService == Init /\ maxRequestsPerUser = MaxLimit /\ cooldownSeconds = MaxCooldown

NextService ==
    \/ \E force \in BOOLEAN, outcome \in LoginOutcomes : SLogin(force, outcome)
    \/ \E query \in Queries : SSearchSong(query)
    \/ \E i \in 1..MaxSearches, outcome \in NetworkOutcomes :
            SSearchCompletes(i, performSearch(outcome))
    \/ STick

SpecService == InitService /\ [][NextService]_vars

----------------------------------------------------------------------------
(* login, request by request.  The catalogue servers choose the Location   *)
(* header of every response.                                               *)

\* Location headers: absent, or one of two addresses that may point at each other
Locations == {"none", "/a", "/b"}

maxRedirects == 10

quietLogin == <<queueVars, configVars, now, ledgerVars, handlers, lastReply, rejected,
                hasCredentials, searchVars, youtubeVars, botVars>>

\* login returns r
LoginReturns(r) ==
    /\ loginPc' = "idle"
    /\ loginResult' = r
    /\ nextUrl' = "none"
    /\ redirectCount' = 0

\* login(force) up to the response to the forum login POST
LoginStart(force) ==
    /\ loginPc = "idle"
    /\ IF ~hasCredentials
       THEN LoginReturns("false")
       ELSE IF isLoggedIn /\ ~force
       THEN LoginReturns("true")
       ELSE /\ loginPc' = "phase1"
            /\ loginResult' = "none"
            /\ nextUrl' \in Locations
            /\ redirectCount' = 0
    /\ UNCHANGED <<isLoggedIn, cookies, quietLogin>>

\* Phase 1: one turn of the loop that follows the redirects of the forum login
LoginPhase1Follow ==
    /\ loginPc = "phase1"
    /\ nextUrl # "none"
    /\ nextUrl' \in Locations
    /\ UNCHANGED <<loginPc, redirectCount, loginResult, isLoggedIn, cookies, quietLogin>>

\* Phase 1 is over: without the member cookie login returns false, with it
\* the Ignition login page is requested
LoginPhase1End(hasForumMemberCookie) ==
    /\ loginPc = "phase1"
    /\ nextUrl = "none"
    /\ IF ~hasForumMemberCookie
       THEN LoginReturns("false")
       ELSE /\ loginPc' = "phase2"
            /\ nextUrl' \in Locations
            /\ redirectCount' = 0
            /\ loginResult' = loginResult
    /\ UNCHANGED <<isLoggedIn, cookies, quietLogin>>

\* Phase 2: one turn of the OAuth redirect loop.  The response is a redirect,
\* an authorization page that is accepted with a POST, or anything else,
\* which breaks out of the loop.
LoginPhase2Follow(response) ==
    /\ loginPc = "phase2"
    /\ nextUrl # "none"
    /\ redirectCount < maxRedirects
    /\ redirectCount' = redirectCount + 1
    /\ IF response \in {"redirect", "authorize"}
       THEN /\ nextUrl' \in Locations
            /\ loginPc' = loginPc
            /\ cookies' = cookies
       ELSE /\ nextUrl' = "none"
            /\ loginPc' = "verify"
            /\ cookies' = "session"
    /\ UNCHANGED <<loginResult, isLoggedIn, quietLogin>>

\* Phase 2: the loop condition fails, the cookies are stored and the probe is sent
LoginPhase2End ==
    /\ loginPc = "phase2"
    /\ nextUrl = "none" \/ redirectCount >= maxRedirects
    /\ loginPc' = "verify"
    /\ nextUrl' = "none"
    /\ cookies' = "session"
    /\ UNCHANGED <<redirectCount, loginResult, isLoggedIn, quietLogin>>

\* The probe is answered.  hasForumMemberCookie holds here, so isLoggedIn is
\* set whatever the status.
LoginVerify(status) ==
    /\ loginPc = "verify"
    /\ isLoggedIn' = TRUE
    /\ LoginReturns("true")
    /\ UNCHANGED <<cookies, quietLogin>>

\* A request of the login call in progress throws: the catch block
LoginThrows ==
    /\ loginPc # "idle"
    /\ LoginReturns("false")
    /\ UNCHANGED <<isLoggedIn, cookies, quietLogin>>

NextLogin ==
    \/ \E force \in BOOLEAN : LoginStart(force)
    \/ LoginPhase1Follow
    \/ \E hasForumMemberCookie \in BOOLEAN : LoginPhase1End(hasForumMemberCookie)
    \/ \E response \in {"redirect", "authorize", "other"} : LoginPhase2Follow(response)
    \/ LoginPhase2End
    \/ \E status \in {200, 401} : LoginVerify(status)
    \/ LoginThrows

\* SpecLogin: login calls one after another; a call that is not waiting for
\* a response runs on
SpecLogin ==
    /\ InitService
    /\ [][NextLogin]_vars
    /\ WF_vars(LoginPhase1Follow)
    /\ WF_vars(\E hasForumMemberCookie \in BOOLEAN : LoginPhase1End(hasForumMemberCookie))
    /\ WF_vars(\E response \in {"redirect", "authorize", "other"} : LoginPhase2Follow(response))
    /\ WF_vars(LoginPhase2End)
    /\ WF_vars(\E status \in {200, 401} : LoginVerify(status))

----------------------------------------------------------------------------
(* The start-bot and stop-bot IPC handlers and BotManager.start / stop,     *)
(* with catalogue credentials and one chat client configured.  An instance  *)
(* is a record [start, client, web]: where its start call stands, the state *)
(* of its chat client, and whether its web server runs.                     *)

MaxInstances == 3   \* BotManager instances created in one run
MaxIpc == 2         \* IPC handlers suspended at once

quietBot == <<queueVars, configVars, now, ledgerVars, handlers, lastReply, rejected,
              loginVars, searchVars, youtubeVars>>

\* new BotManager(settings) and start() up to its first await, the login
NewInstance == [start |-> "login", client |-> "none", web |-> FALSE]

\* BotManager.stop from the point where the client is disconnected
Stopped(m) == [m EXCEPT !.client = "none", !.web = FALSE]

\* start-bot past its stop: the instance is created and start is awaited
CreateAndStart(insts, others) ==
    /\ instances' = Append(insts, NewInstance)
    /\ botManager' = Len(insts) + 1
    /\ ipc' = Append(others, [kind |-> "start", at |-> "start", m |-> Len(insts) + 1])

\* The start-bot handler is invoked
StartBot ==
    /\ Len(instances) < MaxInstances
    /\ Len(ipc) < MaxIpc
    /\ stopDone' = FALSE
    /\ IF botManager = 0
       THEN CreateAndStart(instances, ipc)
       ELSE IF instances[botManager].client # "none"
       THEN /\ ipc' = Append(ipc, [kind |-> "start", at |-> "disconnect", m |-> botManager])
            /\ UNCHANGED <<botManager, instances>>
       ELSE CreateAndStart([instances EXCEPT ![botManager] = Stopped(@)], ipc)
    /\ UNCHANGED quietBot

\* The stop-bot handler is invoked
StopBot ==
    /\ Len(ipc) < MaxIpc
    /\ IF botManager = 0
       THEN /\ stopDone' = TRUE
            /\ UNCHANGED <<botManager, instances, ipc>>
       ELSE IF instances[botManager].client # "none"
       THEN /\ ipc' = Append(ipc, [kind |-> "stop", at |-> "disconnect", m |-> botManager])
            /\ UNCHANGED <<botManager, instances, stopDone>>
       ELSE /\ instances' = [instances EXCEPT ![botManager] = Stopped(@)]
            /\ botManager' = 0
            /\ stopDone' = TRUE
            /\ ipc' = ipc
    /\ UNCHANGED quietBot

\* The disconnect awaited by the stop of suspended handler h returns: stop
\* runs to its end and the handler runs on
DisconnectReturns(h) ==
    /\ h \in DOMAIN ipc
    /\ ipc[h].at = "disconnect"
    /\ IF ipc[h].kind = "stop"
       THEN /\ instances' = [instances EXCEPT ![ipc[h].m] = Stopped(@)]
            /\ botManager' = 0
            /\ stopDone' = TRUE
            /\ ipc' = SpliceOut(ipc, h - 1)
       ELSE /\ Len(instances) < MaxInstances
            /\ CreateAndStart([instances EXCEPT ![ipc[h].m] = Stopped(@)],
                              SpliceOut(ipc, h - 1))
            /\ stopDone' = stopDone
    /\ UNCHANGED quietBot

\* The login awaited by start of instance m returns: the web server is
\* started and the chat client is created and told to connect
StartAfterLogin(m) ==
    /\ m \in DOMAIN instances
    /\ instances[m].start = "login"
    /\ instances' = [instances EXCEPT ![m] =
            [start |-> "connect", client |-> "connecting", web |-> TRUE]]
    /\ UNCHANGED <<botManager, ipc, stopDone, quietBot>>

\* The connect awaited by start of instance m returns: start returns, and
\* with it the start-bot handler that awaits it
StartAfterConnect(m) ==
    /\ m \in DOMAIN instances
    /\ instances[m].start = "connect"
    /\ instances' = [instances EXCEPT ![m] =
            [@ EXCEPT !.start = "done",
                      !.client = IF @ = "connecting" THEN "connected" ELSE @]]
    /\ ipc' = SelectSeq(ipc, LAMBDA hd : ~(hd.at = "start" /\ hd.m = m))
    /\ UNCHANGED <<botManager, stopDone, quietBot>>

NextIpc ==
    \/ StartBot
    \/ StopBot
    \/ \E h \in 1..MaxIpc : DisconnectReturns(h)
    \/ \E m \in 1..MaxInstances : StartAfterLogin(m)
    \/ \E m \in 1..MaxInstances : StartAfterConnect(m)

\* SpecIpc: the control panel starts and stops the bot at any time
SpecIpc == InitQueue /\ [][NextIpc]_vars

\* C18: a login call that reaches its probe returns true only when the probe
\* answers with success; when the probe answers otherwise the call returns
\* false and the cookies collected are kept.
C18_TrueOnlyIfProbeOk ==
    [][\A force \in BOOLEAN, outcome \in LoginOutcomes :
            (ReachesProbe(force, outcome) /\ SLogin(force, outcome))
                => /\ loginResult' = "true" => outcome = "probeOk"
                   /\ outcome = "probeFailed" => loginResult' = "false" /\ cookies' # ""]_vars

Fresh(key) == { e \in lastStored : e.key = key /\ now - e.at < cacheExpiry }
Stale(key) == { e \in lastStored : e.key = key /\ now - e.at >= cacheExpiry }

\* C19: a searchSong call made less than cacheExpiry after a result was last
\* stored under its key returns that result without a network call, and one
\* made later goes to the network.
C19_CachedForExpiry ==
    [][\A query \in Queries :
            SSearchSong(query)
                => /\ \A e \in Fresh(cacheKey(query)) :
                        /\ searches' = searches
                        /\ lastSearch' = [query |-> query, from |-> "cache",
                                          result |-> e.result]
                   /\ Stale(cacheKey(query)) # {} => searches' # searches]_vars

----------------------------------------------------------------------------
(* Claims about the Queue Engine *)

Active(status) == { i \in DOMAIN requests : requests[i].status = status }

Pending == getPendingRequests(requests)

VIPFirst(reqs) ==
    \A i, j \in DOMAIN getPendingRequests(reqs) :
        getPendingRequests(reqs)[i].isVIP /\ ~getPendingRequests(reqs)[j].isVIP => i < j

\* C1: the pending list starts with every priority entry ahead of every
\* non-priority entry, and the only step that can end this is a reorderQueue call.
C1_OnlyReorderBreaksLaneOrder ==
    /\ VIPFirst(requests)
    /\ [][(VIPFirst(requests) /\ ~VIPFirst(requests'))
            => \E i, j \in -1..Len(Pending) : QReorderQueue(i, j)]_vars

\* C1 witness: a priority entry added after a non-priority entry stands ahead of it.
C1_Witness ==
    /\ VIPFirst(requests)
    /\ \E i, j \in DOMAIN Pending :
        /\ i < j
        /\ Pending[i].isVIP /\ ~Pending[j].isVIP
        /\ Pending[i].id > Pending[j].id

\* C17: no processMessage call ends in a rejected promise, whatever fails
\* inside its handler, a failing reply included.
C17_NeverPropagates == ~rejected

\* C2: the active list never holds two entries with status playing.
C2_AtMostOnePlaying == Cardinality(Active("playing")) <= 1

\* The entries (active or not) a caller enqueued
EnqueuedBy(c) ==
    { r \in Range(requests) \cup Range(history) :
        r.userId = c.userId /\ r.platform = c.platform }

\* C7: a caller who has maxRequestsPerUser or more pending requests of their
\* own is denied by canUserRequest.
C7_LimitDenies ==
    \A c \in QueueCallers :
        Cardinality({ r \in EnqueuedBy(c) : r.status = "pending" }) >= maxRequestsPerUser
            => ~canUserRequest(c.userId, c.platform).allowed

LastAccepted(c) == MaxOf({ r.requestedAt : r \in EnqueuedBy(c) }, 0)

LimitReached(c) == UserPendingCount(requests, c.userId, c.platform) >= maxRequestsPerUser

\* C8: canUserRequest denies a caller until cooldownSeconds have passed since
\* their own last accepted addRequest, and allows them from then on unless its
\* pending-limit check fires; requests of other user ids or of the other
\* platform start no cooldown for them.
C8_CooldownWindow ==
    \A c \in QueueCallers :
        IF EnqueuedBy(c) # {} /\ now - LastAccepted(c) < cooldownSeconds
        THEN ~canUserRequest(c.userId, c.platform).allowed
        ELSE ~LimitReached(c) => canUserRequest(c.userId, c.platform).allowed

\* C8 witness: the cooldown of a caller with a pending request has run out
\* and the caller is allowed again.
C8_Witness ==
    \E c \in QueueCallers :
        /\ EnqueuedBy(c) # {}
        /\ now - LastAccepted(c) = cooldownSeconds
        /\ \E d \in QueueCallers : d # c /\ EnqueuedBy(d) # {} /\ LastAccepted(d) > LastAccepted(c)
        /\ canUserRequest(c.userId, c.platform).allowed

\* C13: clearQueue moves exactly the pending entries to history as skipped
\* and returns their number; a playing entry stays in the active queue and
\* is not counted.
C13_ClearMovesOnlyPending ==
    [][QClearQueue
        => /\ requests' = SelectSeq(requests, LAMBDA r : r.status = "playing")
           /\ history' = history \o
                [i \in DOMAIN Pending |-> [Pending[i] EXCEPT !.status = "skipped"]]
           /\ clearQueue(requests, history).result = Len(Pending)]_vars

\* C14: among a requester's pending entries, removeUserRequest skips the one
\* submitted most recently (none has a later requestedAt).
C14_RemovesMostRecent ==
    \A c \in QueueCallers :
        getUserRequests(requests, c.username, c.platform) # <<>>
            => \A r \in Range(getUserRequests(requests, c.username, c.platform)) :
                  r.requestedAt <=
                    FindById(requests,
                        removeUserRequest(requests, history, c.username, c.platform).result
                    ).requestedAt

\* The step removes the entry at one position of the active queue, leaves the
\* others as they were, and appends that entry to history with the status
MovesOne(id, status) ==
    \E i \in DOMAIN requests :
        /\ requests[i].id = id
        /\ requests' = SpliceOut(requests, i - 1)
        /\ history' = Append(history, [requests[i] EXCEPT !.status = status])
        /\ Len(requests') = Len(requests) - 1
        /\ Len(history') = Len(history) + 1

\* C15: a successful skipRequest(id) or markCompleted(id) moves exactly that
\* entry to history: the active queue shrinks by one, history grows by one,
\* and the other active entries keep their status and relative order.
C15_TerminalMovesExactlyOne ==
    [][\A id \in 1..MaxId :
            /\ (QSkipRequest(id) /\ HasId(requests, id)) => MovesOne(id, "skipped")
            /\ (QMarkCompleted(id) /\ HasId(requests, id)) => MovesOne(id, "completed")]_vars

C15_Witness ==
    /\ \E r \in Range(history) : r.status = "completed"
    /\ \E r \in Range(history) : r.status = "skipped"
    /\ \E q \in Range(requests) : \A r \in Range(history) : q.id < r.id

\* Places where the request with the id is held
Holdings(id) ==
    Cardinality({ i \in DOMAIN requests : requests[i].id = id })
        + Cardinality({ i \in DOMAIN history : history[i].id = id })

\* C16: every request created by addRequest is held exactly once, in the
\* active queue (pending or playing) or in history (completed or skipped);
\* history only grows by appending, so an entry that reached history never
\* comes back to the active queue.
C16_ActiveOrHistory ==
    /\ [](/\ \A id \in 1..(nextId - 1) : Holdings(id) = 1
          /\ \A r \in Range(requests) :
                r.id \in 1..(nextId - 1) /\ r.status \in {"pending", "playing"}
          /\ \A r \in Range(history) :
                r.id \in 1..(nextId - 1) /\ r.status \in {"completed", "skipped"})
    /\ [][/\ Len(history') >= Len(history)
          /\ SubSeq(history', 1, Len(history)) = history]_vars

C16_Witness ==
    /\ Len(requests) = 1
    /\ requests[1].status = "playing"
    /\ \E i, j \in DOMAIN history :
            i < j /\ history[i].status = "skipped" /\ history[j].status = "completed"

----------------------------------------------------------------------------
(* Claims about request admission through the Command Router *)

Entries == Range(requests) \cup Range(history)

SameRequester(r, q) == r.userId = q.userId /\ r.platform = q.platform

\* C3: the admission check and the enqueue are one atomic step with respect
\* to other commands of the same requester, so no requester ever has two
\* admitted entries less than cooldownSeconds apart.
C3_AdmissionsRespectCooldown ==
    \A r, q \in Entries :
        (r.id < q.id /\ SameRequester(r, q))
            => q.requestedAt - r.requestedAt >= cooldownSeconds

\* C4: the token debit and the enqueue of a priority request are one atomic
\* step: in every state any command or display read can observe, each
\* 'spent' transaction has its priority entry and each priority entry its
\* 'spent' transaction.
C4_DebitAndEnqueueTogether ==
    TxCount(users, "spent") = Cardinality({ r \in Entries : r.isVIP })

C4_Witness ==
    /\ handlers # <<>>
    /\ \E r \in Range(requests) : r.isVIP /\ r.status = "pending"
    /\ TxCount(users, "spent") = 1

\* A priority request of handler h is admitted in this step
AdmitsVIP(h, song) ==
    /\ h \in DOMAIN handlers
    /\ handlers[h].kind = "viprequest"
    /\ SearchReturns(h, song)
    /\ lastReply' = "vipAdded"

\* The balance of c drops by one with one 'spent' transaction of -1, and one
\* pending priority entry is added to the queue
DebitedAndEnqueued(c) ==
    LET k == KeyIndex(users, c.platform, c.userId) IN
    /\ k # 0
    /\ users[k].tokens >= 1
    /\ users' = [users EXCEPT ![k] =
                    [@ EXCEPT !.tokens = @ - 1,
                              !.history = Append(@, Tx("spent", 0 - 1))]]
    /\ history' = history
    /\ RemoveId(requests', nextId) = requests
    /\ \E i \in DOMAIN requests' :
            /\ requests'[i].id = nextId
            /\ requests'[i].isVIP
            /\ requests'[i].status = "pending"
            /\ SameRequester(requests'[i], c)

\* The entry just added precedes every pending non-priority entry
NewEntryAhead ==
    \A i, j \in DOMAIN requests' :
        (requests'[i].id = nextId /\ requests'[j].status = "pending" /\ ~requests'[j].isVIP)
            => i < j

\* C5 as stated: from any reachable queue state, an admitted priority request
\* debits one token, records one 'spent' transaction of -1 and adds one
\* priority entry ahead of all non-priority pending entries.
C5_AdmittedVIPAheadFromAnyState ==
    [][\A h \in 1..MaxHandlers, k \in DOMAIN SongList :
            AdmitsVIP(h, SongList[k])
                => DebitedAndEnqueued(handlers[h].msg) /\ NewEntryAhead]_vars

\* C5 amended: the same, with the new entry ahead of all non-priority pending
\* entries when the pending priority entries preceded the non-priority ones
\* before the request (no reorder had put a non-priority entry in front).
C5_AdmittedVIPAhead ==
    [][\A h \in 1..MaxHandlers, k \in DOMAIN SongList :
            AdmitsVIP(h, SongList[k])
                => /\ DebitedAndEnqueued(handlers[h].msg)
                   /\ VIPFirst(requests) => NewEntryAhead]_vars

C5_Witness ==
    /\ lastReply = "vipAdded"
    /\ TxCount(users, "spent") = 2
    /\ \E i, j \in DOMAIN requests :
            /\ i < j
            /\ requests[i].isVIP /\ requests[i].id = nextId - 1
            /\ requests[i].status = "pending"
            /\ ~requests[j].isVIP /\ requests[j].status = "pending"

\* C6: a priority request from a requester whose balance is 0, or who has no
\* account, changes neither the queue nor the ledger and is answered with the
\* insufficient-tokens reply; the handler does not go on to the search.
C6_NoTokensNoMutation ==
    [][\A c \in CmdCallers, hasArgs \in BOOLEAN :
            (ReceiveVIPRequest(c, hasArgs) /\ getBalance(users, c.platform, c.userId) = 0)
                => /\ UNCHANGED <<queueVars, ledgerVars, handlers>>
                   /\ lastReply' = "noTokens"]_vars

C6_Witness ==
    /\ lastReply = "noTokens"
    /\ \E i \in DOMAIN users : users[i].tokens = 0 /\ users[i].history # <<>>
    /\ requests # <<>>

----------------------------------------------------------------------------
(* Claims about the Token Ledger *)

\* C11: no account's transaction history holds more than 100 entries.
C11_HistoryCapped == \A i \in DOMAIN users : Len(users[i].history) <= HistoryCap

\* C12: awards are idempotent: delivering the same support event to its
\* ledger handler twice leaves the accounts as delivering it once does.
C12_AwardsIdempotent ==
    \A c \in LedgerCallers :
        /\ \A tier \in Tiers :
            handleTwitchSubscription(
                handleTwitchSubscription(users, rates, c.userId, c.username, tier),
                rates, c.userId, c.username, tier)
              = handleTwitchSubscription(users, rates, c.userId, c.username, tier)
        /\ \A bits \in BitsAmounts :
            handleTwitchBits(handleTwitchBits(users, rates, c.userId, c.username, bits),
                             rates, c.userId, c.username, bits)
              = handleTwitchBits(users, rates, c.userId, c.username, bits)
        /\ handleYouTubeMembership(
                handleYouTubeMembership(users, rates, c.userId, c.username),
                rates, c.userId, c.username)
              = handleYouTubeMembership(users, rates, c.userId, c.username)
        /\ \A m \in SuperChatMicros :
            handleYouTubeSuperChat(
                handleYouTubeSuperChat(users, rates, c.userId, c.username, m),
                rates, c.userId, c.username, m)
              = handleYouTubeSuperChat(users, rates, c.userId, c.username, m)

\* C9: no account's tokens value is below 0.
C9_TokensNonNegative == \A i \in DOMAIN users : users[i].tokens >= 0

SameName(a, b) == ToLower(a) = ToLower(b)

Named(us, platform, name) ==
    { i \in DOMAIN us : us[i].platform = platform /\ SameName(us[i].displayName, name) }

\* The ledger after findOrCreateByUsername(t) and then ensureUser(c)
AfterReconcile(t, c) ==
    ensureUser(findOrCreateByUsername(users, t.platform, t.username).users,
               c.platform, c.userId, c.username)

\* The account findOrCreateByUsername(t) returns
ByUsername(t) ==
    findOrCreateByUsername(users, t.platform, t.username).users
        [findOrCreateByUsername(users, t.platform, t.username).idx]

\* C10: from any ledger state, findOrCreateByUsername for a display name and
\* then a call with the real user id and that display name leave one account
\* of that name on the platform, under the real-id key, with the balance and
\* history of the account the username addressed.
C10_ReconcileLeavesOneAccount ==
    \A t \in UsernameTargets, c \in LedgerCallers :
        (t.platform = c.platform /\ SameName(t.username, c.username)) =>
            /\ Cardinality(Named(AfterReconcile(t, c), c.platform, c.username)) = 1
            /\ \A i \in Named(AfterReconcile(t, c), c.platform, c.username) :
                /\ AfterReconcile(t, c)[i].platformUserId = c.userId
                /\ AfterReconcile(t, c)[i].tokens = ByUsername(t).tokens
                /\ AfterReconcile(t, c)[i].history = ByUsername(t).history

\* The accounts stored under the key of c
Keyed(us, c) ==
    { i \in DOMAIN us : us[i].platform = c.platform /\ us[i].platformUserId = c.userId }

\* C21: from any ledger state spendTokens fails with the no-account error
\* when the key has no account and with the not-enough error when the balance
\* is below the amount, the accounts staying as they are; otherwise it takes
\* the amount off that account's balance, appends one 'spent' transaction of
\* minus the amount, touches nothing else and returns the new balance.
C21_SpendAllOrNothing ==
    \A c \in LedgerCallers, amount \in SpendAmounts :
        LET spent == spendTokens(users, c.platform, c.userId, amount)
        IN  IF Keyed(users, c) = {}
            THEN ~spent.success /\ spent.error = "noAccount" /\ spent.users = users
            ELSE \A k \in Keyed(users, c) :
                    IF users[k].tokens < amount
                    THEN /\ ~spent.success
                         /\ spent.error = "notEnough"
                         /\ spent.users = users
                    ELSE /\ spent.success
                         /\ spent.remainingTokens = users[k].tokens - amount
                         /\ spent.users =
                                [users EXCEPT ![k] =
                                    [users[k] EXCEPT
                                        !.tokens = users[k].tokens - amount,
                                        !.history = users[k].history
                                                        \o << Tx("spent", 0 - amount) >>]]

\* C21 witness: one account was debited down to 0, another has too little
\* for any spend, and a third key has no account.
C21_Witness ==
    /\ \E i \in DOMAIN users :
            /\ users[i].tokens = 0
            /\ users[i].history # <<>>
            /\ users[i].history[Len(users[i].history)].type = "spent"
    /\ \E i \in DOMAIN users : users[i].tokens < 1 /\ users[i].history = <<>>
    /\ \E c \in LedgerCallers : Keyed(users, c) = {}

\* Every account of us lives on in vs with the same platform, the same
\* totalEarned, and the same user id or the same name in some letter case
\* (a migrated account); every other account of vs has earned nothing
Carried(us, vs) ==
    \E f \in [DOMAIN us -> DOMAIN vs] :
        /\ \A i, j \in DOMAIN us : i # j => f[i] # f[j]
        /\ \A i \in DOMAIN us :
            /\ vs[f[i]].platform = us[i].platform
            /\ vs[f[i]].totalEarned = us[i].totalEarned
            /\ \/ vs[f[i]].platformUserId = us[i].platformUserId
               \/ ToLower(vs[f[i]].displayName) = ToLower(us[i].displayName)
        /\ \A k \in DOMAIN vs : (\A i \in DOMAIN us : f[i] # k) => vs[k].totalEarned = 0

\* vs adds amount to the totalEarned of one account of us and carries the rest
Earns(us, vs, amount) ==
    \E k \in DOMAIN vs : Carried(us, [vs EXCEPT ![k].totalEarned = @ - amount])

----------------------------------------------------------------------------
(* reorderQueue *)

\* The entries of reqs other than the one with this id, in order
Others(reqs, id) == SelectSeq(reqs, LAMBDA r : r.id # id)

EntrySet(reqs) == { reqs[i] : i \in DOMAIN reqs }

\* C25: reorderQueue(from, to) with both indices inside the pending list moves
\* the pending entry at from to position to, keeps the other pending entries in
\* their relative order, and keeps the set of active entries, the playing one
\* included, and the history; with an index out of range it changes nothing.
C25_ReorderMovesOne ==
    /\ [](\A from, to \in -1..Len(Pending) :
            LET after == reorderQueue(requests, from, to)
                inRange == from >= 0 /\ from < Len(Pending) /\ to >= 0 /\ to < Len(Pending)
            IN  IF inRange
                THEN /\ getPendingRequests(after)[to + 1] = Pending[from + 1]
                     /\ Others(getPendingRequests(after), Pending[from + 1].id)
                            = Others(Pending, Pending[from + 1].id)
                     /\ EntrySet(after) = EntrySet(requests)
                     /\ Len(after) = Len(requests)
                ELSE after = requests)
    /\ [][\A from, to \in -1..Len(Pending) :
            QReorderQueue(from, to) => history' = history]_vars

\* C25 witness: a song is playing and two ordinary pending entries stand in
\* the reverse of their order of arrival, which only a reorder produces.
C25_Witness ==
    /\ \E i \in DOMAIN requests : requests[i].status = "playing"
    /\ \E i, j \in DOMAIN Pending :
            /\ i < j
            /\ Pending[i].id > Pending[j].id
            /\ ~Pending[i].isVIP /\ ~Pending[j].isVIP

----------------------------------------------------------------------------
(* addRequest: where the new entry goes *)

\* Positions of the pending priority entries in the pending list
PendingVIPs(reqs) ==
    { i \in DOMAIN getPendingRequests(reqs) : getPendingRequests(reqs)[i].isVIP }

\* C26: addRequest with isVIP = true puts the new entry right after the last
\* pending priority entry, at the front of the pending list when there is none;
\* with isVIP = false it puts it after every existing entry; either way the
\* existing entries keep their relative order.
C26_PriorityPlacement ==
    \A c \in QueueCallers, song \in QueueSongs, isVIP \in BOOLEAN :
        LET new == NewRequest(nextId, song, c.userId, c.username, c.platform, isVIP, now)
            after == InsertRequest(requests, new)
        IN  /\ Others(after, nextId) = requests
            /\ Len(after) = Len(requests) + 1
            /\ isVIP => getPendingRequests(after)
                            [MaxOf(PendingVIPs(requests), 0) + 1] = new
            /\ ~isVIP => after[Len(after)] = new

\* C26 witness: a priority entry that arrived last stands right after an
\* older priority entry and before an ordinary pending entry.
C26_Witness ==
    /\ Len(Pending) = 3
    /\ Pending[1].isVIP /\ Pending[2].isVIP /\ ~Pending[3].isVIP
    /\ Pending[1].id < Pending[3].id
    /\ Pending[3].id < Pending[2].id

----------------------------------------------------------------------------
(* handleVIPRequest: when the token is spent *)

\* Suspended handler h is a priority request
IsVIPHandler(h) == h \in DOMAIN handlers /\ handlers[h].kind = "viprequest"

\* C27: a priority request rejected for a reason other than tokens (missing
\* text, cooldown or pending-limit denial, song already queued) leaves the
\* ledger as it is: the token is debited only in the step that has fixed the
\* song, found it not queued, and enqueues it.
C27_DebitOnlyOnAdmission ==
    [][/\ \A c \in CmdCallers, hasArgs \in BOOLEAN :
            ReceiveVIPRequest(c, hasArgs) => users' = users
       /\ \A h \in 1..MaxHandlers, k \in DOMAIN SongList :
            (IsVIPHandler(h) /\ SearchReturns(h, SongList[k]))
                => /\ isSongInQueue(requests, SongList[k].artist, SongList[k].title)
                        => (users' = users /\ lastReply' = "duplicate")
                   /\ users' # users
                        => /\ ~isSongInQueue(requests, SongList[k].artist, SongList[k].title)
                           /\ lastReply' = "vipAdded"
                           /\ Len(requests') = Len(requests) + 1]_vars

\* C27 witness: a requester who holds a token and has spent one before is
\* told the song is already queued, the queue holding a priority entry.
C27_Witness ==
    /\ lastReply = "duplicate"
    /\ \E i \in DOMAIN users :
            /\ users[i].tokens >= 1
            /\ \E t \in DOMAIN users[i].history : users[i].history[t].type = "spent"
    /\ \E r \in Range(requests) : r.isVIP /\ r.status = "pending"

----------------------------------------------------------------------------
(* getOrCreateUser: which account is migrated *)

\* A placeholder account is stored under its lower-cased display name
IsPlaceholder(u) == u.platformUserId = ToLower(u.displayName)

\* C28: when a ledger call arrives for a real user id that has no account,
\* only a placeholder account is re-keyed: every account stored under another
\* real user id is still stored under that id afterwards, whatever its
\* display name.
C28_OnlyPlaceholderMigrates ==
    \A c \in LedgerCallers :
        (c.userId # ToLower(c.username) /\ KeyIndex(users, c.platform, c.userId) = 0)
            => \A i \in DOMAIN users :
                    ~IsPlaceholder(users[i])
                        => KeyIndex(getOrCreateUser(users, c.platform, c.userId,
                                                    c.username).users,
                                    users[i].platform, users[i].platformUserId) # 0

----------------------------------------------------------------------------
(* Bits and Super Chat awards *)

CentsPerDollar == 100

\* The ledger vs is the ledger us after one award of n tokens of this type to
\* the account under the key
AwardedExactly(us, vs, platform, userId, n, type) ==
    /\ KeyIndex(vs, platform, userId) # 0
    /\ vs[KeyIndex(vs, platform, userId)].history # <<>>
    /\ vs[KeyIndex(vs, platform, userId)].history
            [Len(vs[KeyIndex(vs, platform, userId)].history)] = Tx(type, n)
    /\ TotalTx(vs) = TotalTx(us) + 1

\* What a support of amount a is worth at threshold t and k tokens per
\* threshold: vs is us after floor(a / t) * k tokens were awarded, or us
\* itself when a is below t
SupportAward(us, vs, platform, userId, a, t, k, type) ==
    IF a >= t
    THEN AwardedExactly(us, vs, platform, userId, (a \div t) * k, type)
    ELSE vs = us

\* C29: a bits or Super Chat support of amount A at threshold T with K tokens
\* per threshold awards floor(A / T) * K tokens when A >= T and nothing, not
\* even an account, when A < T: for the live events, the Super Chat amount
\* coming in micros, and for !testbits and !testsuperchat, the amount given in
\* bits and in dollars.
C29_SupportAwards ==
    /\ [](\A c \in ModCallers, bits \in BitsAmounts :
            SupportAward(users,
                         handleTwitchBits(users, rates, c.userId, c.username, bits),
                         "twitch", c.userId, bits,
                         rates.twitchBitsAmount, rates.twitchBitsTokens, "bits"))
    /\ [](\A c \in ModCallers, micros \in SuperChatMicros :
            SupportAward(users,
                         handleYouTubeSuperChat(users, rates, c.userId, c.username, micros),
                         "youtube", c.userId, micros \div MicrosPerCent,
                         rates.youtubeSuperChatMinimum, rates.youtubeSuperChat,
                         "superchat"))
    /\ [][\A c \in ModCallers, bitsArg \in BitsArgs \ {0} :
            handleTestBits(c, bitsArg)
                => SupportAward(users, users', "twitch", c.userId, bitsArg,
                                rates.twitchBitsAmount, rates.twitchBitsTokens, "bits")]_vars
    /\ [][\A c \in ModCallers, dollarArg \in DollarArgs \ {0} :
            handleTestSuperChat(c, dollarArg)
                => SupportAward(users, users', "youtube", c.userId,
                                dollarArg * CentsPerDollar,
                                rates.youtubeSuperChatMinimum, rates.youtubeSuperChat,
                                "superchat")]_vars

----------------------------------------------------------------------------
(* YouTubeClient: the first poll *)

\* C30: the items returned by the first poll after connect, asked for with
\* no page token, are skipped: none is handed to a handler, so the ledger
\* stays as it is.
C30_BacklogSkipped ==
    [][\A p \in 1..MaxPolls, hasToken \in BOOLEAN :
            (/\ p \in DOMAIN polls
             /\ polls[p].first
             /\ polls[p].pageToken = 0
             /\ YouTubePollReturns(p, hasToken))
                => dispatched' = dispatched /\ users' = users]_vars

----------------------------------------------------------------------------
(* Priority requests and placeholder accounts *)

\* The ledger holds the display name of c on a placeholder account with
\* tokens, and no account under the user id of c
OnlyPlaceholder(c) ==
    /\ KeyIndex(users, c.platform, c.userId) = 0
    /\ \E i \in DOMAIN users :
            /\ users[i].platform = c.platform
            /\ IsPlaceholder(users[i])
            /\ ToLower(users[i].displayName) = ToLower(c.username)
            /\ users[i].tokens >= 1

----------------------------------------------------------------------------
(* Concurrent priority requests of one user *)

\* Priority entries enqueued for c, pending, playing or in the history
VIPEntriesOf(c) ==
    { r \in Entries : r.isVIP /\ r.userId = c.userId /\ r.platform = c.platform }

\* 'spent' transactions on the account of c
SpentBy(c) ==
    IF KeyIndex(users, c.platform, c.userId) = 0 THEN 0
    ELSE Cardinality({ t \in DOMAIN users[KeyIndex(users, c.platform, c.userId)].history :
            users[KeyIndex(users, c.platform, c.userId)].history[t].type = "spent" })

\* C32: however concurrently handled !viprequest commands of one user
\* interleave, the priority entries enqueued for the user are as many as the
\* tokens debited and the balance is never below 0; a handler that resumes
\* when the balance is used up replies with the failure and leaves the queue
\* and the ledger alone.
C32_OneEntryPerToken ==
    /\ [](\A c \in CmdCallers :
            /\ Cardinality(VIPEntriesOf(c)) = SpentBy(c)
            /\ getBalance(users, c.platform, c.userId) >= 0)
    /\ [][\A h \in 1..MaxHandlers, k \in DOMAIN SongList :
            (/\ IsVIPHandler(h)
             /\ getBalance(users, handlers[h].msg.platform, handlers[h].msg.userId) < 1
             /\ ~isSongInQueue(requests, SongList[k].artist, SongList[k].title)
             /\ SearchReturns(h, SongList[k]))
                => /\ UNCHANGED <<queueVars, ledgerVars>>
                   /\ lastReply' = "spendFailed"]_vars

\* C32 witness: of two priority requests handled at once on a balance of 1,
\* one is enqueued and the other is told the token could not be used.
C32_Witness ==
    /\ lastReply = "spendFailed"
    /\ handlers = <<>>
    /\ \E c \in CmdCallers :
            /\ Cardinality(VIPEntriesOf(c)) = 1
            /\ SpentBy(c) = 1
            /\ getBalance(users, c.platform, c.userId) = 0
            /\ users[KeyIndex(users, c.platform, c.userId)].totalEarned = 1

----------------------------------------------------------------------------
(* Duplicates among the pending entries *)

SameSong(r, q) ==
    /\ ToLower(r.song.artist) = ToLower(q.song.artist)
    /\ ToLower(r.song.title) = ToLower(q.song.title)

\* C33: from an empty queue, however !request and !viprequest handlers
\* interleave with skip, complete, clear, remove and reorder, no two pending
\* entries have the same artist and title compared without regard to case.
C33_NoDuplicatePending ==
    \A i, j \in DOMAIN requests :
        (i # j /\ requests[i].status = "pending" /\ requests[j].status = "pending")
            => ~SameSong(requests[i], requests[j])

\* C33 witness: a song is pending, the same song in the other letter case
\* is playing, and a further request for it was answered as a duplicate.
C33_Witness ==
    /\ lastReply = "duplicate"
    /\ \E i, j \in DOMAIN requests :
            /\ requests[i].status = "pending"
            /\ requests[j].status = "playing"
            /\ SameSong(requests[i], requests[j])
            /\ requests[i].song # requests[j].song

----------------------------------------------------------------------------
(* !remove *)

\* C34: !remove only ever skips an entry enqueued by a message with the
\* platform and user id of the caller.
C34_RemovesOwnOnly ==
    [][\A c \in NamesakeCallers :
            handleRemove(c)
                => \A r \in Range(history') \ Range(history) :
                        r.userId = c.userId /\ r.platform = c.platform]_vars

----------------------------------------------------------------------------
(* searchSong when the network fails *)

\* C35: a searchSong call whose network attempts all failed stores no result
\* in the cache and sets no timer, so the next identical query goes to the
\* network again.
C35_FailureNotCached ==
    [][\A i \in 1..MaxSearches :
            (i \in DOMAIN searches /\ SSearchCompletes(i, performSearch("failed")))
                => searchCache' = searchCache /\ cacheTimers' = cacheTimers]_vars

----------------------------------------------------------------------------
(* login: termination *)

\* C36: whatever Location headers the servers return, a login call returns
\* after a bounded number of requests; phase 2 follows at most maxRedirects
\* hops.
C36_LoginTerminates ==
    /\ [](redirectCount <= maxRedirects)
    /\ (loginPc # "idle") ~> (loginPc = "idle")

----------------------------------------------------------------------------
(* login: what isAuthenticated answers afterwards *)

\* C37: after a login call has returned r, isAuthenticated() is r; a forced
\* login that fails leaves the service unauthenticated.
C37_AuthenticatedIsResult ==
    [][\A force \in BOOLEAN, outcome \in LoginOutcomes :
            SLogin(force, outcome) => (isLoggedIn' <=> loginResult' = "true")]_vars

----------------------------------------------------------------------------
(* YouTubeClient: overlapping polls *)

\* C38: every live chat item is handed to the handlers at most once, however
\* the timer polls and the initial poll interleave, and none is handed over
\* once disconnect has returned.
C38_DispatchedOnce ==
    [][\A p \in 1..MaxPolls, hasToken \in BOOLEAN :
            (YouTubePollReturns(p, hasToken) /\ nextPageToken' # 0)
                => /\ (FirstItem(polls[p].pageToken)..liveChat) \cap dispatched = {}
                   /\ (FirstItem(polls[p].pageToken)..liveChat) # {} => isConnected]_vars

----------------------------------------------------------------------------
(* start-bot and stop-bot *)

\* The instances with a running web server or a connected chat client
Live == { m \in DOMAIN instances : instances[m].web \/ instances[m].client = "connected" }

\* C39: however start-bot and stop-bot handlers interleave, at most one
\* BotManager instance has a running web server or a connected chat client,
\* and once a stop-bot call has returned with no start-bot call after it, none has.
C39_OneLiveInstance ==
    /\ Cardinality(Live) <= 1
    /\ stopDone => Live = {}

====
